---- MODULE Spec2Model ----
(***************************************************************************)
(* Verification model of the boundary-ingestion services of the metrics    *)
(* repository: the Overpass query client (external/overpass), the          *)
(* districts cache (external/cache) and the metadata extractor             *)
(* (external/overpass/utils/parser.py).                                    *)
(*                                                                         *)
(* The specifications share the module, one per component:                 *)
(*   SpecClient  OverpassClient facade + OverpassApiClient + api_endpoint  *)
(*   SpecCache   Cache facade + RedisCache + redis_safe                    *)
(*   SpecRedis   RedisCache without the facade                             *)
(*   SpecLifecycle  init and close of the facades and implementations      *)
(*   SpecMeta    parse_districts_metadata                                  *)
(*   SpecWays    parse_ways_to_geometry                                    *)
(*   SpecAssembly  parse_ways_to_geometry, the steps after linemerge       *)
(*   SpecNorm    normalize_geometry                                        *)
(*   SpecAnalytics  AnalyticsService.process_events_batch                   *)
(* Each leaves the variables of the other components at their initial      *)
(* value.                                                                  *)
(***************************************************************************)
EXTENDS Integers, Sequences, FiniteSets, TLC

VARIABLES
    \* ---- Overpass client ----
    oc_impl,            \* OverpassClient._impl: 0 is None, else an object id
    oc_is_initialized,  \* OverpassClient._is_initialized
    oc_n,               \* number of OverpassApiClient objects the facade built
    api_client,         \* OverpassApiClient._client, per object
    call,               \* per task: the call in progress or last completed
    sentThisSecond,     \* requests put on the wire since the last clock tick
    oc_live,            \* history: an init returned and no close ended since
    api_live,           \* history, bare object: init returned, no close returned since
    \* ---- districts cache ----
    ca_impl,            \* Cache._impl: 0 is None, else a RedisCache object id
    ca_is_initialized,  \* Cache._is_initialized
    ca_n,               \* number of RedisCache objects the facade built
    rc_client,          \* RedisCache._client (and _pool), per object
    store,              \* the value of the Redis key <prefix>:cities_districts_json
    cop,                \* per task: the cache call in progress or last completed
    ca_live,            \* history: an init returned and no close ended since
    lastWrite,          \* history: what the last set/delete left, if known
    \* ---- metadata extractor ----
    md_elements,        \* data["elements"], the input of parse_districts_metadata
    md_i,               \* position of the loop: the next element (1-based)
    md_districts,       \* districts, the list being built
    md_src,             \* history: for each district, the position of its element
    \* ---- boundary reconstructor ----
    pw_ways,            \* ways, the input of parse_ways_to_geometry
    pw_pc,              \* "call": not run yet, "done": it returned or raised
    pw_lines,           \* lines, the LineStrings of step 1
    pw_merged_lines,    \* merged_lines, what linemerge gave
    pw_result,          \* what parse_ways_to_geometry returned or raised
    \* ---- geometry normalizer ----
    nz_geom,            \* geom, the argument of normalize_geometry
    nz_pc,              \* "call", then "done" once normalize_geometry ended
    nz_multi,           \* geom at the return statement (the MultiPolygon)
    nz_out,             \* what normalize_geometry(geom) returned or raised
    nz_again,           \* what normalize_geometry of that return value gave
    nz_same,            \* what normalize_geometry of nz_multi gave
    \* ---- a RedisCache used without the facade ----
    br_client,          \* RedisCache._client (and _pool): "None" or "set"
    br_ping,            \* history: how the ping of that client ended
    an_batch,           \* batch.events of the batch being processed
    an_pc,              \* where process_events_batch stands
    an_n,               \* batches received so far
    an_valid,           \* valid_events
    an_rejected,        \* rejected_events
    an_saved,           \* history: the arguments of the save_events calls
    an_saved_count,     \* saved_count
    an_attempts,        \* history: the save_rejected_event calls of the batch
    an_result,          \* what process_events_batch returned, or that it raised
    daily_item_views    \* the rows of the table daily_item_views

clientVars == <<oc_impl, oc_is_initialized, oc_n, api_client, call,
                sentThisSecond, oc_live, api_live>>

cacheVars == <<ca_impl, ca_is_initialized, ca_n, rc_client, store, cop,
               ca_live, lastWrite>>

metaVars == <<md_elements, md_i, md_districts, md_src>>

waysVars == <<pw_ways, pw_pc, pw_lines, pw_merged_lines, pw_result>>

normVars == <<nz_geom, nz_pc, nz_multi, nz_out, nz_again, nz_same>>

geoVars == <<waysVars, normVars>>

bareVars == <<br_client, br_ping>>

anVars == <<an_batch, an_pc, an_n, an_valid, an_rejected, an_saved,
            an_saved_count, an_attempts, an_result, daily_item_views>>

svcVars == <<bareVars, anVars>>

vars == <<clientVars, cacheVars, metaVars, geoVars, svcVars>>

-----------------------------------------------------------------------------
(* Bounds and program constants                                            *)

\* Concurrent asyncio tasks calling the client.
Tasks == {"t1", "t2"}

\* OverpassApiClient objects the facade may construct in one run.
MaxImpls == 2

\* Requests that may be put on the wire between two clock ticks.
MaxBurst == 2

\* overpass_rps_limit (default 1.0 request per second).
RpsLimit == 1

\* overpass_retry_attempts (default 3).
RetryAttempts == 3

\* Objects 1..MaxImpls are the OverpassApiClient objects OverpassClient.init
\* constructs; one more is an OverpassApiClient a caller constructed itself.
Standalone == MaxImpls + 1

ApiObjs == 1..(MaxImpls + 1)

\* Query strings: the empty string and a non-empty Overpass QL text.
Queries == {"", "[out:json];rel(1);out;"}

\* Response bodies: a JSON object, a JSON array, text that is not JSON.
Bodies == {"{\"elements\": []}", "[]", "<html>busy</html>"}

\* Bodies of the error responses.
ErrBodies == {"{\"elements\": []}", "<html>busy</html>"}

OkStatuses == {200}

ErrStatuses == {302, 503}

\* What the transport hands back for one request: a response, or an exception.
Outcomes ==
    [exc : {"none"}, status : OkStatuses, body : Bodies]
    \cup [exc : {"none"}, status : ErrStatuses, body : ErrBodies]
    \cup [exc : {"ConnectError", "TimeoutException", "ReadError"},
          status : {0}, body : {""}]

IsJson(b) == b \in {"{\"elements\": []}", "[]"}

IsDict(b) == b = "{\"elements\": []}"

\* httpx.Response.is_success
IsSuccess(status) == status \div 100 = 2

\* No outcome received (yet).
NoOutcome == [exc |-> "unset", status |-> 0, body |-> ""]

NoCall ==
    [op |-> "none", via |-> "none", obj |-> 0, pc |-> "idle", query |-> "",
     url |-> "", reqbody |-> "", live |-> FALSE, sends |-> 0,
     kind |-> "none", status |-> 0, body |-> "", data |-> "none",
     got |-> NoOutcome]

-----------------------------------------------------------------------------
(* OverpassApiClient and the api_endpoint decorator                        *)

Idle(t) == call[t].pc = "idle"

\* A finished call: the record a task keeps of its last call (the request
\* itself is gone with the call).
Finished(c, kind) ==
    [c EXCEPT !.pc = "idle", !.kind = kind, !.obj = 0, !.query = "",
              !.url = "", !.reqbody = ""]

\* base_url.rstrip("/") + path, for the configured base URL.
EndpointUrl == "https://overpass-api.de/api/interpreter"

\* The request the wrapper builds: a non-empty query goes out as form data,
\* a falsy query (empty string) sends the bare request.
RequestBody(q) == IF q # "" THEN q ELSE "<no body>"

\* The guard of api_endpoint.wrapper: getattr(self_obj, "_client", None) is None
\* (_base_url is always a string: the constructor falls back to the settings).
client_is_none_unchecked(o) == FALSE

client_is_none(o) == api_client[o] = "None"

\* api_endpoint.wrapper up to the point where the request is awaited.
\* c is the call record (op, via, obj, query, live already set).
wrapper_issue(t, c) ==
    IF client_is_none(c.obj)
    THEN \* RuntimeError("... not initialized: call init() first")
         /\ call' = [call EXCEPT ![t] = Finished(c, "NotInitialized")]
         /\ UNCHANGED sentThisSecond
    ELSE IF api_client[c.obj] = "closed"
    THEN \* aclose() was called on the AsyncClient: httpx refuses to send
         /\ call' = [call EXCEPT ![t] = Finished(c, "ClientClosed")]
         /\ UNCHANGED sentThisSecond
    ELSE /\ sentThisSecond < MaxBurst
         /\ sentThisSecond' = sentThisSecond + 1
         /\ call' = [call EXCEPT ![t] =
                [c EXCEPT !.pc = "post", !.kind = "pending", !.sends = 1,
                          !.url = EndpointUrl,
                          !.reqbody = RequestBody(c.query)]]

\* What the wrapper makes of the transport's outcome r: raise_for_status,
\* resp.json(), the decorated execute, and the two except clauses.
wrapper_outcome_swallowing(c, r) ==
    IF r.exc # "none"
    THEN Finished(c, r.exc)
    ELSE [Finished(c, "ok") EXCEPT !.data = r.body]

wrapper_outcome(c, r) ==
    IF r.exc \in {"ConnectError", "TimeoutException"}
    THEN \* logged and re-raised
         Finished(c, r.exc)
    ELSE IF r.exc # "none"
    THEN \* any other HTTPError has no .response: the handler's e.response fails
         Finished(c, "AttributeError")
    ELSE IF ~IsSuccess(r.status)
    THEN \* raise_for_status: HTTPStatusError carrying the response, re-raised
         [Finished(c, "HTTPStatusError") EXCEPT !.status = r.status,
                                                 !.body = r.body]
    ELSE IF ~IsJson(r.body)
    THEN Finished(c, "JSONDecodeError")
    ELSE IF ~IsDict(r.body)
    THEN \* execute: raise ValueError("Expected dict from Overpass ...")
         Finished(c, "ValueError")
    ELSE [Finished(c, "ok") EXCEPT !.data = r.body]

\* The awaited request completes with outcome r.
post_return(t, r) ==
    /\ call[t].pc = "post"
    /\ call' = [call EXCEPT ![t] =
                   wrapper_outcome([call[t] EXCEPT !.got = r], r)]
    /\ UNCHANGED <<oc_impl, oc_is_initialized, oc_n, api_client,
                   sentThisSecond, oc_live, api_live>>
    /\ UNCHANGED <<cacheVars, metaVars, geoVars, svcVars>>

\* OverpassApiClient.init on object o, which the constructor left with
\* _client None unless an earlier init set it; fail: httpx.AsyncClient(...)
\* raises.
api_init(o, fail) ==
    IF api_client[o] \in {"open", "closed"}
    THEN api_client
    ELSE [api_client EXCEPT ![o] = IF fail THEN "None" ELSE "open"]

NewCall(op, via, o, q, live) ==
    [NoCall EXCEPT !.op = op, !.via = via, !.obj = o, !.query = q,
                   !.live = live]

\* A caller's own OverpassApiClient: init()
OverpassApiClient_init(t, fail) ==
    /\ Idle(t)
    /\ LET c == NewCall("init", "direct", Standalone, "", FALSE) IN
       IF api_client[Standalone] # "None"
       THEN /\ call' = [call EXCEPT ![t] = Finished(c, "already")]
            /\ api_live' = TRUE
            /\ UNCHANGED api_client
       ELSE /\ api_client' = api_init(Standalone, fail)
            /\ call' = [call EXCEPT ![t] =
                  Finished(c, IF fail THEN "InitError" ELSE "ok")]
            /\ api_live' = IF fail THEN api_live ELSE TRUE
    /\ UNCHANGED <<oc_impl, oc_is_initialized, oc_n, sentThisSecond, oc_live>>
    /\ UNCHANGED <<cacheVars, metaVars, geoVars, svcVars>>

\* A caller's own OverpassApiClient: close(), up to the awaited aclose()
OverpassApiClient_close(t) ==
    /\ Idle(t)
    /\ LET c == NewCall("close", "direct", Standalone, "", FALSE) IN
       IF api_client[Standalone] = "None"
       THEN /\ call' = [call EXCEPT ![t] = Finished(c, "noop")]
            /\ api_live' = FALSE
            /\ UNCHANGED api_client
       ELSE /\ api_client' = [api_client EXCEPT ![Standalone] = "closed"]
            /\ call' = [call EXCEPT ![t] =
                          [c EXCEPT !.pc = "aclose", !.kind = "pending"]]
            /\ UNCHANGED api_live
    /\ UNCHANGED <<oc_impl, oc_is_initialized, oc_n, sentThisSecond, oc_live>>
    /\ UNCHANGED <<cacheVars, metaVars, geoVars, svcVars>>

\* A caller's own OverpassApiClient: execute(query=q)
OverpassApiClient_execute(t, q) ==
    /\ Idle(t)
    /\ wrapper_issue(t, NewCall("execute", "direct", Standalone, q, api_live))
    /\ UNCHANGED <<oc_impl, oc_is_initialized, oc_n, api_client, oc_live,
                   api_live>>
    /\ UNCHANGED <<cacheVars, metaVars, geoVars, svcVars>>

-----------------------------------------------------------------------------
(* OverpassClient, the application facade                                  *)

\* OverpassClient._require_impl passes
require_impl_ok == oc_impl # 0 /\ oc_is_initialized

\* The guard of OverpassClient.init:
\* cls._is_initialized and cls._impl is not None
client_already_initialized_never == FALSE

client_already_initialized == oc_is_initialized /\ oc_impl # 0

\* OverpassClient.init(); fail: the implementation's init raises.
OverpassClient_init(t, fail) ==
    /\ Idle(t)
    /\ LET c == NewCall("init", "facade", oc_impl, "", FALSE) IN
       IF client_already_initialized
       THEN /\ call' = [call EXCEPT ![t] = Finished(c, "already")]
            /\ oc_live' = TRUE
            /\ UNCHANGED <<oc_impl, oc_is_initialized, oc_n, api_client>>
       ELSE /\ oc_n < MaxImpls
            /\ oc_n' = oc_n + 1
            /\ oc_impl' = oc_n + 1
            /\ api_client' = api_init(oc_n + 1,  fail)
            /\ oc_is_initialized' = IF fail THEN oc_is_initialized ELSE TRUE
            /\ oc_live' = IF fail THEN oc_live ELSE TRUE
            /\ call' = [call EXCEPT ![t] =
                  Finished([c EXCEPT !.obj = oc_n + 1],
                           IF fail THEN "InitError" ELSE "ok")]
    /\ UNCHANGED <<sentThisSecond, api_live>>
    /\ UNCHANGED <<cacheVars, metaVars, geoVars, svcVars>>

\* OverpassClient.close(), up to the awaited aclose() of the implementation
OverpassClient_close(t) ==
    /\ Idle(t)
    /\ LET c == NewCall("close", "facade", oc_impl, "", FALSE) IN
       IF ~oc_is_initialized \/ oc_impl = 0
       THEN /\ call' = [call EXCEPT ![t] = Finished(c, "noop")]
            /\ oc_live' = FALSE
            /\ UNCHANGED <<oc_impl, oc_is_initialized, api_client>>
       ELSE IF api_client[oc_impl] = "None"
       THEN \* the implementation's close returns at once; finally: reset
            /\ call' = [call EXCEPT ![t] = Finished(c, "ok")]
            /\ oc_impl' = 0
            /\ oc_is_initialized' = FALSE
            /\ oc_live' = FALSE
            /\ UNCHANGED api_client
       ELSE /\ api_client' = [api_client EXCEPT ![oc_impl] = "closed"]
            /\ call' = [call EXCEPT ![t] =
                          [c EXCEPT !.pc = "aclose", !.kind = "pending"]]
            /\ UNCHANGED <<oc_impl, oc_is_initialized, oc_live>>
    /\ UNCHANGED <<oc_n, sentThisSecond, api_live>>
    /\ UNCHANGED <<cacheVars, metaVars, geoVars, svcVars>>

\* The awaited aclose() ends (fail: it raises). OverpassApiClient.close clears
\* _client only when it returned; the facade's finally block always resets.
aclose_return(t, fail) ==
    /\ call[t].pc = "aclose"
    /\ LET c == call[t] IN
       /\ api_client' = IF fail THEN api_client
                        ELSE [api_client EXCEPT ![c.obj] = "None"]
       /\ call' = [call EXCEPT ![t] =
                     Finished(c, IF fail THEN "CloseError" ELSE "ok")]
       /\ IF c.via = "facade"
          THEN /\ oc_impl' = 0
               /\ oc_is_initialized' = FALSE
               /\ oc_live' = FALSE
               /\ UNCHANGED api_live
          ELSE /\ api_live' = IF fail THEN api_live ELSE FALSE
               /\ UNCHANGED <<oc_impl, oc_is_initialized, oc_live>>
    /\ UNCHANGED <<oc_n, sentThisSecond>>
    /\ UNCHANGED <<cacheVars, metaVars, geoVars, svcVars>>

\* OverpassClient.execute(q)
OverpassClient_execute(t, q) ==
    /\ Idle(t)
    /\ LET c == NewCall("execute", "facade", oc_impl, q, oc_live) IN
       IF ~require_impl_ok
       THEN \* RuntimeError("OverpassClient not initialized. Call init() first.")
            /\ call' = [call EXCEPT ![t] = Finished(c, "NotInitialized")]
            /\ UNCHANGED sentThisSecond
       ELSE wrapper_issue(t, c)
    /\ UNCHANGED <<oc_impl, oc_is_initialized, oc_n, api_client, oc_live,
                   api_live>>
    /\ UNCHANGED <<cacheVars, metaVars, geoVars, svcVars>>

\* One second of wall-clock time passes.
Tick ==
    /\ sentThisSecond > 0
    /\ sentThisSecond' = 0
    /\ UNCHANGED <<oc_impl, oc_is_initialized, oc_n, api_client, call,
                   oc_live, api_live>>
    /\ UNCHANGED <<cacheVars, metaVars, geoVars, svcVars>>

ClientInit ==
    /\ oc_impl = 0
    /\ oc_is_initialized = FALSE
    /\ oc_n = 0
    /\ api_client = [o \in ApiObjs |->
                        IF o = Standalone THEN "None" ELSE "unborn"]
    /\ call = [t \in Tasks |-> NoCall]
    /\ sentThisSecond = 0
    /\ oc_live = FALSE
    /\ api_live = FALSE

NextClient ==
    \/ \E t \in Tasks, fail \in BOOLEAN : OverpassClient_init(t, fail)
    \/ \E t \in Tasks : OverpassClient_close(t)
    \/ \E t \in Tasks, q \in Queries : OverpassClient_execute(t, q)
    \/ \E t \in Tasks, fail \in BOOLEAN : OverpassApiClient_init(t, fail)
    \/ \E t \in Tasks : OverpassApiClient_close(t)
    \/ \E t \in Tasks, q \in Queries : OverpassApiClient_execute(t, q)
    \/ \E t \in Tasks, fail \in BOOLEAN : aclose_return(t, fail)
    \/ \E t \in Tasks, r \in Outcomes : post_return(t, r)
    \/ Tick

-----------------------------------------------------------------------------
(* The cached document: JSON text and its parsed value                     *)

\* RedisCache objects the Cache facade may construct in one run.
MaxCaches == 2

CacheObjs == 1..MaxCaches

Cities == {"khabarovsk", "vladivostok"}

NoDistricts == [c \in Cities |-> <<>>]

\* A text value: fmt tells how it is written ("dumps": exactly as json.dumps
\* writes the value; "other": the same value in another layout), kind what it
\* parses to ("dict", "list", or "invalid" for text that is not JSON); for a
\* dict, keys are its city codes and dl the district list of each.
Text(fmt, kind, keys, dl) == [fmt |-> fmt, kind |-> kind, keys |-> keys, dl |-> dl]

\* The key is absent (Redis GET returns None).
NoText == Text("absent", "absent", {}, NoDistricts)

\* lastWrite when a deleteCity or a failed command touched the key.
Unknown == Text("unknown", "unknown", {}, NoDistricts)

FullDistricts ==
    [c \in Cities |-> IF c = "khabarovsk" THEN <<"Central">> ELSE <<"Lenin", "Frunze">>]

DictText(fmt, keys) ==
    Text(fmt, "dict", keys, [c \in Cities |-> IF c \in keys THEN FullDistricts[c] ELSE <<>>])

\* The texts callers hand to set().
Texts ==
    {DictText("dumps", Cities), DictText("other", Cities),
     DictText("dumps", {"khabarovsk"}),
     Text("dumps", "list", {}, NoDistricts),
     Text("other", "invalid", {}, NoDistricts)}

\* json.loads: the parsed value (the caller checks json_valid first).
json_valid_any(raw) == TRUE

json_valid(raw) == raw.kind # "invalid"

json_loads(raw) == [kind |-> raw.kind, keys |-> raw.keys, dl |-> raw.dl]

\* json.dumps(payload, ensure_ascii=False)
json_dumps(payload) == Text("dumps", payload.kind, payload.keys, payload.dl)

\* isinstance(payload, dict) and city_code in payload
city_in_payload_any(payload, city) == payload.kind = "dict"

city_in_payload(payload, city) == payload.kind = "dict" /\ city \in payload.keys

\* payload.pop(city_code, None)
payload_pop_all(payload, city) ==
    [payload EXCEPT !.keys = {}, !.dl = NoDistricts]

payload_pop(payload, city) ==
    [payload EXCEPT !.keys = @ \ {city}, !.dl[city] = <<>>]

\* Redis SET key value: the value the key holds afterwards.
redis_set_nx(old, json_str) == IF old = NoText THEN json_str ELSE old

redis_set(old, json_str) == json_str

\* What a Redis command can do: succeed, fail before it ran, fail after it ran.
ReadOutcomes == {"ok", "err"}

WriteOutcomes == {"ok", "err", "err_applied"}

Applied(out) == out \in {"ok", "err_applied"}

\* redis_safe around a method whose Redis command ended as out: the method
\* returns, or the connection, timeout or command error is logged and
\* raised again.
redis_safe_swallowing(out) == "ok"

redis_safe(out) == IF out = "ok" THEN "ok" ELSE "RedisError"

NoCop ==
    [op |-> "none", pc |-> "idle", obj |-> 0, city |-> "", raw |-> NoText,
     kind |-> "none", val |-> NoText, ret |-> FALSE, had |-> FALSE,
     live |-> FALSE, cmds |-> 0, err |-> FALSE, via |-> "none",
     ping |-> "none"]

NewCop(op) == [NoCop EXCEPT !.op = op, !.live = ca_live, !.via = "facade"]

CIdle(t) == cop[t].pc = "idle"

CDone(c, kind) == [c EXCEPT !.pc = "idle", !.kind = kind, !.obj = 0,
                            !.city = "", !.raw = NoText]

-----------------------------------------------------------------------------
(* Cache facade and RedisCache lifecycle                                   *)

\* Cache.init() up to the awaited ping of the new RedisCache
Cache_init(t) ==
    /\ CIdle(t)
    /\ IF ca_is_initialized /\ ca_impl # 0
       THEN /\ cop' = [cop EXCEPT ![t] = CDone(NewCop("init"), "already")]
            /\ ca_live' = TRUE
            /\ UNCHANGED <<ca_impl, ca_n, rc_client>>
       ELSE /\ ca_n < MaxCaches
            /\ ca_n' = ca_n + 1
            /\ ca_impl' = ca_n + 1
            /\ rc_client' = [rc_client EXCEPT ![ca_n + 1] = "set"]
            /\ cop' = [cop EXCEPT ![t] =
                  [NewCop("init") EXCEPT !.pc = "ping", !.kind = "pending",
                                         !.obj = ca_n + 1]]
            /\ UNCHANGED ca_live
    /\ UNCHANGED <<ca_is_initialized, store, lastWrite>>
    /\ UNCHANGED <<clientVars, metaVars, geoVars, svcVars>>

\* RedisCache.init: the ping ends (fail: it raises; _client stays set), then
\* Cache.init sets the flag.
ping_return(t, fail) ==
    /\ cop[t].pc = "ping"
    /\ cop' = [cop EXCEPT ![t] =
                 CDone(cop[t], IF fail THEN "InitError" ELSE "ok")]
    /\ ca_is_initialized' = IF fail THEN ca_is_initialized ELSE TRUE
    /\ ca_live' = IF fail THEN ca_live ELSE TRUE
    /\ UNCHANGED <<ca_impl, ca_n, rc_client, store, lastWrite>>
    /\ UNCHANGED <<clientVars, metaVars, geoVars, svcVars>>

\* Cache.close() up to the awaited close of the Redis client
Cache_close(t) ==
    /\ CIdle(t)
    /\ IF ~ca_is_initialized \/ ca_impl = 0
       THEN /\ cop' = [cop EXCEPT ![t] = CDone(NewCop("close"), "noop")]
            /\ ca_live' = FALSE
            /\ UNCHANGED <<ca_impl, ca_is_initialized>>
       ELSE IF rc_client[ca_impl] = "None"
       THEN \* RedisCache.cleanup returns at once; finally: reset
            /\ cop' = [cop EXCEPT ![t] = CDone(NewCop("close"), "ok")]
            /\ ca_impl' = 0
            /\ ca_is_initialized' = FALSE
            /\ ca_live' = FALSE
       ELSE /\ cop' = [cop EXCEPT ![t] =
                  [NewCop("close") EXCEPT !.pc = "cleanup",
                                          !.kind = "pending",
                                          !.obj = ca_impl]]
            /\ UNCHANGED <<ca_impl, ca_is_initialized, ca_live>>
    /\ UNCHANGED <<ca_n, rc_client, store, lastWrite>>
    /\ UNCHANGED <<clientVars, metaVars, geoVars, svcVars>>

\* RedisCache.cleanup ends (fail: client.close()/pool.disconnect raised); both
\* finally blocks run: the object drops its client, the facade resets.
cleanup_return(t, fail) ==
    /\ cop[t].pc = "cleanup"
    /\ rc_client' = [rc_client EXCEPT ![cop[t].obj] = "None"]
    /\ ca_impl' = 0
    /\ ca_is_initialized' = FALSE
    /\ ca_live' = FALSE
    /\ cop' = [cop EXCEPT ![t] =
                 CDone(cop[t], IF fail THEN "CloseError" ELSE "ok")]
    /\ UNCHANGED <<ca_n, store, lastWrite>>
    /\ UNCHANGED <<clientVars, metaVars, geoVars, svcVars>>

-----------------------------------------------------------------------------
(* Cache operations: Cache._require_impl, redis_safe, the RedisCache method *)

\* Cache._require_impl passes
cache_require_impl_unchecked == ca_impl # 0

cache_require_impl == ca_impl # 0 /\ ca_is_initialized

\* The call reaches the Redis command: the facade holds an implementation and
\* redis_safe finds its _client set.
ReachesRedis == cache_require_impl /\ rc_client[ca_impl] # "None"

\* Cache.get_cities_districts_json()
Cache_get(t, out) ==
    /\ CIdle(t)
    /\ IF ~ReachesRedis
       THEN /\ out = "ok"
            /\ cop' = [cop EXCEPT ![t] = CDone(NewCop("get"), "NotInitialized")]
       ELSE cop' = [cop EXCEPT ![t] =
                CDone([NewCop("get") EXCEPT !.cmds = 1, !.err = (out # "ok"),
                          !.val = IF out = "ok" THEN store ELSE NoText],
                      redis_safe(out))]
    /\ UNCHANGED <<ca_impl, ca_is_initialized, ca_n, rc_client, store,
                   ca_live, lastWrite>>
    /\ UNCHANGED <<clientVars, metaVars, geoVars, svcVars>>

\* Cache.set_cities_districts_json(json_str)
Cache_set(t, json_str, out) ==
    /\ CIdle(t)
    /\ IF ~ReachesRedis
       THEN /\ out = "ok"
            /\ cop' = [cop EXCEPT ![t] = CDone(NewCop("set"), "NotInitialized")]
            /\ UNCHANGED <<store, lastWrite>>
       ELSE /\ store' = IF Applied(out) THEN redis_set(store, json_str) ELSE store
            /\ lastWrite' = IF out = "ok" THEN json_str ELSE Unknown
            /\ cop' = [cop EXCEPT ![t] =
                  CDone([NewCop("set") EXCEPT !.cmds = 1, !.err = (out # "ok")],
                        redis_safe(out))]
    /\ UNCHANGED <<ca_impl, ca_is_initialized, ca_n, rc_client, ca_live>>
    /\ UNCHANGED <<clientVars, metaVars, geoVars, svcVars>>

\* Cache.delete_cities_districts_json()
Cache_delete(t, out) ==
    /\ CIdle(t)
    /\ IF ~ReachesRedis
       THEN /\ out = "ok"
            /\ cop' = [cop EXCEPT ![t] =
                         CDone(NewCop("delete"), "NotInitialized")]
            /\ UNCHANGED <<store, lastWrite>>
       ELSE /\ store' = IF Applied(out) THEN NoText ELSE store
            /\ lastWrite' = IF out = "ok" THEN NoText ELSE Unknown
            /\ cop' = [cop EXCEPT ![t] =
                  CDone([NewCop("delete") EXCEPT !.cmds = 1,
                                                 !.err = (out # "ok"),
                                                 !.had = (store # NoText)],
                        redis_safe(out))]
    /\ UNCHANGED <<ca_impl, ca_is_initialized, ca_n, rc_client, ca_live>>
    /\ UNCHANGED <<clientVars, metaVars, geoVars, svcVars>>

\* Cache.delete_city_from_json(city_code): the call and its GET.
\* had records whether city_code was a key of the stored mapping at the call.
Cache_delete_city(t, city, out) ==
    /\ CIdle(t)
    /\ LET c == [NewCop("delete_city") EXCEPT
                    !.had = (store.kind = "dict" /\ city \in store.keys)] IN
       IF ~ReachesRedis
       THEN /\ out = "ok"
            /\ cop' = [cop EXCEPT ![t] = CDone(c, "NotInitialized")]
       ELSE IF out # "ok"
       THEN cop' = [cop EXCEPT ![t] =
                CDone([c EXCEPT !.cmds = 1, !.err = TRUE], redis_safe(out))]
       ELSE IF store = NoText
       THEN \* raw is None: return False
            cop' = [cop EXCEPT ![t] = CDone([c EXCEPT !.cmds = 1], "ok")]
       ELSE cop' = [cop EXCEPT ![t] =
                [c EXCEPT !.pc = "rmw", !.kind = "pending", !.cmds = 1,
                          !.city = city, !.raw = store]]
    /\ UNCHANGED <<ca_impl, ca_is_initialized, ca_n, rc_client, store,
                   ca_live, lastWrite>>
    /\ UNCHANGED <<clientVars, metaVars, geoVars, svcVars>>

\* RedisCache.delete_city_from_json after the GET returned raw: parse, then
\* DELETE the key (text that is not JSON), return False (no such city), or
\* SET the mapping without the city and return True.
delete_city_resume(t, out) ==
    /\ cop[t].pc = "rmw"
    /\ LET c == cop[t] IN
       IF ~json_valid(c.raw)
       THEN /\ store' = IF Applied(out) THEN NoText ELSE store
            /\ lastWrite' = Unknown
            /\ cop' = [cop EXCEPT ![t] =
                  CDone([c EXCEPT !.cmds = 2, !.err = (out # "ok")],
                        redis_safe(out))]
       ELSE IF ~city_in_payload(json_loads(c.raw), c.city)
       THEN /\ out = "ok"
            /\ cop' = [cop EXCEPT ![t] = CDone(c, "ok")]
            /\ UNCHANGED <<store, lastWrite>>
       ELSE /\ store' = IF Applied(out)
                        THEN redis_set(store,
                               json_dumps(payload_pop(json_loads(c.raw), c.city)))
                        ELSE store
            /\ lastWrite' = Unknown
            /\ cop' = [cop EXCEPT ![t] =
                  CDone([c EXCEPT !.cmds = 2, !.err = (out # "ok"),
                                  !.ret = (out = "ok")],
                        redis_safe(out))]
    /\ UNCHANGED <<ca_impl, ca_is_initialized, ca_n, rc_client, ca_live>>
    /\ UNCHANGED <<clientVars, metaVars, geoVars, svcVars>>

CacheInit ==
    /\ ca_impl = 0
    /\ ca_is_initialized = FALSE
    /\ ca_n = 0
    /\ rc_client = [o \in CacheObjs |-> "unborn"]
    /\ store \in {NoText, DictText("dumps", Cities)}
    /\ cop = [t \in Tasks |-> NoCop]
    /\ ca_live = FALSE
    /\ lastWrite = Unknown

-----------------------------------------------------------------------------
(* RedisCache, constructed and called by a caller of its own               *)

BareCop(op) == [NoCop EXCEPT !.op = op, !.via = "direct", !.ping = br_ping]

\* redis_safe.wrapper: getattr(self_obj, "_client", None) is None
redis_client_is_none == br_client = "None"

\* RedisCache.init(); fail: the awaited ping raises.  The pool and the client
\* are assigned before the ping and nothing takes them back when it raises.
RedisCache_init(t, fail) ==
    /\ CIdle(t)
    /\ IF br_client # "None"
       THEN /\ fail = FALSE
            /\ cop' = [cop EXCEPT ![t] = CDone(BareCop("init"), "already")]
            /\ UNCHANGED bareVars
       ELSE /\ br_client' = "set"
            /\ br_ping' = IF fail THEN "failed" ELSE "ok"
            /\ cop' = [cop EXCEPT ![t] =
                  CDone(BareCop("init"), IF fail THEN "InitError" ELSE "ok")]
    /\ UNCHANGED <<ca_impl, ca_is_initialized, ca_n, rc_client, store,
                   ca_live, lastWrite>>
    /\ UNCHANGED <<clientVars, metaVars, geoVars, anVars>>

\* RedisCache.cleanup(); fail: client.close() or pool.disconnect() raises,
\* the finally block clears _client and _pool all the same.
RedisCache_cleanup(t, fail) ==
    /\ CIdle(t)
    /\ IF br_client = "None"
       THEN /\ fail = FALSE
            /\ cop' = [cop EXCEPT ![t] = CDone(BareCop("close"), "noop")]
            /\ UNCHANGED bareVars
       ELSE /\ br_client' = "None"
            /\ br_ping' = "none"
            /\ cop' = [cop EXCEPT ![t] =
                  CDone(BareCop("close"), IF fail THEN "CloseError" ELSE "ok")]
    /\ UNCHANGED <<ca_impl, ca_is_initialized, ca_n, rc_client, store,
                   ca_live, lastWrite>>
    /\ UNCHANGED <<clientVars, metaVars, geoVars, anVars>>

\* RedisCache.get_cities_districts_json()
RedisCache_get(t, out) ==
    /\ CIdle(t)
    /\ IF redis_client_is_none
       THEN /\ out = "ok"
            /\ cop' = [cop EXCEPT ![t] = CDone(BareCop("get"), "NotInitialized")]
       ELSE cop' = [cop EXCEPT ![t] =
                CDone([BareCop("get") EXCEPT !.cmds = 1, !.err = (out # "ok"),
                          !.val = IF out = "ok" THEN store ELSE NoText],
                      redis_safe(out))]
    /\ UNCHANGED <<ca_impl, ca_is_initialized, ca_n, rc_client, store,
                   ca_live, lastWrite>>
    /\ UNCHANGED <<clientVars, metaVars, geoVars, svcVars>>

\* RedisCache.set_cities_districts_json(json_str)
RedisCache_set(t, json_str, out) ==
    /\ CIdle(t)
    /\ IF redis_client_is_none
       THEN /\ out = "ok"
            /\ cop' = [cop EXCEPT ![t] = CDone(BareCop("set"), "NotInitialized")]
            /\ UNCHANGED <<store, lastWrite>>
       ELSE /\ store' = IF Applied(out) THEN redis_set(store, json_str) ELSE store
            /\ lastWrite' = IF out = "ok" THEN json_str ELSE Unknown
            /\ cop' = [cop EXCEPT ![t] =
                  CDone([BareCop("set") EXCEPT !.cmds = 1, !.err = (out # "ok")],
                        redis_safe(out))]
    /\ UNCHANGED <<ca_impl, ca_is_initialized, ca_n, rc_client, ca_live>>
    /\ UNCHANGED <<clientVars, metaVars, geoVars, svcVars>>

\* RedisCache.delete_cities_districts_json()
RedisCache_delete(t, out) ==
    /\ CIdle(t)
    /\ IF redis_client_is_none
       THEN /\ out = "ok"
            /\ cop' = [cop EXCEPT ![t] =
                         CDone(BareCop("delete"), "NotInitialized")]
            /\ UNCHANGED <<store, lastWrite>>
       ELSE /\ store' = IF Applied(out) THEN NoText ELSE store
            /\ lastWrite' = IF out = "ok" THEN NoText ELSE Unknown
            /\ cop' = [cop EXCEPT ![t] =
                  CDone([BareCop("delete") EXCEPT !.cmds = 1,
                                                  !.err = (out # "ok"),
                                                  !.had = (store # NoText)],
                        redis_safe(out))]
    /\ UNCHANGED <<ca_impl, ca_is_initialized, ca_n, rc_client, ca_live>>
    /\ UNCHANGED <<clientVars, metaVars, geoVars, svcVars>>

\* RedisCache.delete_city_from_json(city_code): the call and its GET; the
\* rest is delete_city_resume.
RedisCache_delete_city(t, city, out) ==
    /\ CIdle(t)
    /\ LET c == [BareCop("delete_city") EXCEPT
                    !.had = (store.kind = "dict" /\ city \in store.keys)] IN
       IF redis_client_is_none
       THEN /\ out = "ok"
            /\ cop' = [cop EXCEPT ![t] = CDone(c, "NotInitialized")]
       ELSE IF out # "ok"
       THEN cop' = [cop EXCEPT ![t] =
                CDone([c EXCEPT !.cmds = 1, !.err = TRUE], redis_safe(out))]
       ELSE IF store = NoText
       THEN cop' = [cop EXCEPT ![t] = CDone([c EXCEPT !.cmds = 1], "ok")]
       ELSE cop' = [cop EXCEPT ![t] =
                [c EXCEPT !.pc = "rmw", !.kind = "pending", !.cmds = 1,
                          !.city = city, !.raw = store]]
    /\ UNCHANGED <<ca_impl, ca_is_initialized, ca_n, rc_client, store,
                   ca_live, lastWrite>>
    /\ UNCHANGED <<clientVars, metaVars, geoVars, svcVars>>

BareInit ==
    /\ br_client = "None"
    /\ br_ping = "none"

-----------------------------------------------------------------------------
(* parse_districts_metadata                                                *)

\* Elements in one Overpass response.
MaxElems == 2

\* dict.get on a key that is absent returns None.
Missing == "<None>"

TagKeys == {"boundary", "admin_level", "name", "name:ru", "official_name",
            "alt_name"}

\* A tags dict: b, l, n, r, o, a are the values of the six keys or Missing.
Tags(b, l, n, r, o, a) ==
    [k \in TagKeys |->
        CASE k = "boundary" -> b
          [] k = "admin_level" -> l
          [] k = "name" -> n
          [] k = "name:ru" -> r
          [] k = "official_name" -> o
          [] k = "alt_name" -> a]

\* An element without a "tags" key: elem.get("tags", {}) is the empty dict.
NoTags == Tags(Missing, Missing, Missing, Missing, Missing, Missing)

Elem(type, id, tags) == [type |-> type, id |-> id, tags |-> tags]

\* The name tags of the relations that pass the boundary filter.
NameTags ==
    {<<"Central", Missing, Missing, Missing>>,
     <<Missing, "Tsentralny", Missing, Missing>>,
     <<Missing, Missing, "Central district", Missing>>,
     <<Missing, Missing, Missing, "Centre">>,
     <<"Central", "Tsentralny", "Central district", "Centre">>,
     <<Missing, "Tsentralny", "Central district", "Centre">>,
     <<Missing, Missing, Missing, Missing>>,
     <<"", "Tsentralny", Missing, Missing>>,
     <<"", Missing, Missing, "">>}

Elements ==
    {Elem("relation", 1, Tags("administrative", "9", n[1], n[2], n[3], n[4])) :
        n \in NameTags}
    \cup
    {Elem("relation", 2, Tags("administrative", "10", "Central", Missing, Missing, Missing)),
     Elem("relation", 3, Tags("administrative", "8", "Khabarovsk", Missing, Missing, Missing)),
     Elem("relation", 4, Tags("postal_code", "9", "680000", Missing, Missing, Missing)),
     Elem("relation", 5, Tags(Missing, "9", "Central", Missing, Missing, Missing)),
     Elem("relation", 6, Tags("administrative", Missing, "Central", Missing, Missing, Missing)),
     Elem("relation", 7, NoTags),
     Elem("way", 8, Tags("administrative", "9", "Central", Missing, Missing, Missing)),
     Elem(Missing, 9, Tags("administrative", "10", "Central", Missing, Missing, Missing))}

Inputs == UNION {[1..n -> Elements] : n \in 0..MaxElems}

\* Python truth value of tags.get(k): None and the empty string are false.
Truthy(v) == v # Missing /\ v # ""

\* a or b
py_or(a, b) == IF Truthy(a) THEN a ELSE b

\* The three filters of the loop: type, boundary, admin_level.
keeps_relation_any_level(e) ==
    /\ e.type = "relation"
    /\ e.tags["boundary"] = "administrative"

keeps_relation(e) ==
    /\ e.type = "relation"
    /\ e.tags["boundary"] = "administrative"
    /\ e.tags["admin_level"] \in {"9", "10"}

\* tags.get("name") or tags.get("name:ru") or tags.get("official_name")
\*   or tags.get("alt_name")
resolve_name_ru_first(tags) ==
    py_or(tags["name:ru"],
          py_or(tags["name"], py_or(tags["official_name"], tags["alt_name"])))

resolve_name(tags) ==
    py_or(tags["name"],
          py_or(tags["name:ru"], py_or(tags["official_name"], tags["alt_name"])))

\* districts.append({...})
districts_append_unique(ds, d) ==
    IF \E j \in 1..Len(ds) : ds[j].name = d.name THEN ds ELSE Append(ds, d)

districts_append(ds, d) == Append(ds, d)

\* One iteration of the for loop over elements.
parse_element ==
    /\ md_i <= Len(md_elements)
    /\ LET e == md_elements[md_i]
           name == resolve_name(e.tags)
       IN IF keeps_relation(e) /\ Truthy(name)
          THEN /\ md_districts' = districts_append(md_districts,
                      [osm_relation_id |-> e.id, osm_type |-> e.type,
                       name |-> name])
               /\ md_src' = Append(md_src, md_i)
          ELSE UNCHANGED <<md_districts, md_src>>
    /\ md_i' = md_i + 1
    /\ UNCHANGED md_elements
    /\ UNCHANGED <<clientVars, cacheVars, geoVars, svcVars>>

\* The loop is over: parse_districts_metadata returns md_districts.
MetaDone == md_i = Len(md_elements) + 1

MetaInit ==
    /\ md_elements \in Inputs
    /\ md_i = 1
    /\ md_districts = <<>>
    /\ md_src = <<>>

\* No call is in progress.
Quiet == \A t \in Tasks : CIdle(t)

-----------------------------------------------------------------------------
(* parse_ways_to_geometry: the input elements and step 1 (LineStrings)     *)

MaxWays == 4

\* A node of a way's geometry, {"lat": ..., "lon": ...}.
Node(lon, lat) == [lat |-> lat, lon |-> lon]

\* An element of the ways list.  has_geometry is FALSE when the element has
\* no "geometry" key.
Way(type, has_geometry, geometry) ==
    [type |-> type, has_geometry |-> has_geometry, geometry |-> geometry]

\* The nodes at the points pts, a point being <<x, y>> = <<lon, lat>>.
NodesAt(pts) == [i \in 1..Len(pts) |-> Node(pts[i][1], pts[i][2])]

WayAt(pts) == Way("way", TRUE, NodesAt(pts))

\* The four sides of the unit square in ring direction, one side reversed, an
\* open way of three nodes, the degenerate closed way A-B-A, a way whose two
\* nodes are the same point, a way without geometry, an element that is not a
\* way, and a closed way around a second square.
WayElems ==
    {WayAt(<<<<0, 0>>, <<1, 0>>>>),
     WayAt(<<<<1, 0>>, <<1, 1>>>>),
     WayAt(<<<<1, 1>>, <<0, 1>>>>),
     WayAt(<<<<0, 1>>, <<0, 0>>>>),
     WayAt(<<<<1, 1>>, <<1, 0>>>>),
     WayAt(<<<<0, 0>>, <<1, 0>>, <<1, 1>>>>),
     WayAt(<<<<0, 0>>, <<1, 0>>, <<0, 0>>>>),
     WayAt(<<<<0, 0>>, <<0, 0>>>>),
     Way("way", FALSE, <<>>),
     Way("node", TRUE, NodesAt(<<<<0, 1>>, <<0, 0>>>>)),
     WayAt(<<<<2, 0>>, <<3, 0>>, <<3, 1>>, <<2, 1>>, <<2, 0>>>>)}

\* way.get("geometry", [])
get_geometry(way) == IF way.has_geometry THEN way.geometry ELSE <<>>

\* [(node["lon"], node["lat"]) for node in geometry]
coords(geometry) ==
    [i \in 1..Len(geometry) |-> <<geometry[i].lon, geometry[i].lat>>]

\* LineString(coords).is_valid: a line needs two distinct points.  (A
\* LineString built from coordinates is never empty.)
LineString_is_valid(c) == \E i, j \in 1..Len(c) : c[i] # c[j]

\* The tests an element passes before lines.append(line).
appends_line_any_type(way) ==
    /\ Len(get_geometry(way)) >= 2
    /\ LineString_is_valid(coords(get_geometry(way)))

appends_line(way) ==
    /\ way.type = "way"
    /\ Len(get_geometry(way)) >= 2
    /\ LineString_is_valid(coords(get_geometry(way)))

\* lines, after the loop over ways.
LineStrings(ways) ==
    LET kept == SelectSeq(ways, appends_line)
    IN [i \in 1..Len(kept) |-> coords(get_geometry(kept[i]))]

-----------------------------------------------------------------------------
(* shapely.ops.linemerge and polygonize on lines that meet at end points   *)

IsClosed(l) == l[1] = l[Len(l)]

Reverse(l) == [i \in 1..Len(l) |-> l[Len(l) + 1 - i]]

EndsOf(l) == {l[1], l[Len(l)]}

\* The number of line ends at the point p; a closed line has both ends there.
Degree(ls, p) ==
    Cardinality({ie \in (1..Len(ls)) \X {1, 2} :
        (IF ie[2] = 1 THEN ls[ie[1]][1] ELSE ls[ie[1]][Len(ls[ie[1]])]) = p})

\* Pairs of lines that meet at a point where no other line ends.
Mergeable(ls) ==
    {ij \in (1..Len(ls)) \X (1..Len(ls)) :
        /\ ij[1] < ij[2]
        /\ \E p \in EndsOf(ls[ij[1]]) \cap EndsOf(ls[ij[2]]) : Degree(ls, p) = 2}

\* The lines a and b joined at their common end p, either one reversed as
\* needed.
JoinAt(a, b, p) ==
    LET a1 == IF a[Len(a)] = p THEN a ELSE Reverse(a)
        b1 == IF b[1] = p THEN b ELSE Reverse(b)
    IN a1 \o Tail(b1)

RemoveAt(ls, j) == SubSeq(ls, 1, j - 1) \o SubSeq(ls, j + 1, Len(ls))

\* linemerge(MultiLineString(lines)): lines that share an end point with
\* exactly one other line are sewn together, whatever their direction, until
\* no two lines can be sewn; the result is the list of maximal lines.
RECURSIVE linemerge(_)
linemerge(ls) ==
    IF Mergeable(ls) = {}
    THEN ls
    ELSE LET ij == CHOOSE x \in Mergeable(ls) : TRUE
             p == CHOOSE q \in EndsOf(ls[ij[1]]) \cap EndsOf(ls[ij[2]]) :
                        Degree(ls, q) = 2
         IN linemerge(RemoveAt([ls EXCEPT ![ij[1]] =
                                    JoinAt(ls[ij[1]], ls[ij[2]], p)], ij[2]))

\* Lines with a free end cannot bound a polygon: polygonize deletes them,
\* again and again.
RECURSIVE delete_dangles(_)
delete_dangles(ls) ==
    LET dangles == {i \in 1..Len(ls) :
                        \E p \in EndsOf(ls[i]) : Degree(ls, p) = 1}
    IN IF dangles = {}
       THEN ls
       ELSE delete_dangles(RemoveAt(ls, CHOOSE i \in dangles : TRUE))

\* (a - o) x (b - o)
Cross(o, a, b) ==
    (a[1] - o[1]) * (b[2] - o[2]) - (a[2] - o[2]) * (b[1] - o[1])

Between(x, u, v) == (u <= x /\ x <= v) \/ (v <= x /\ x <= u)

\* p lies on the segment a-b.
OnSegment(p, a, b) ==
    /\ Cross(a, b, p) = 0
    /\ Between(p[1], a[1], b[1])
    /\ Between(p[2], a[2], b[2])

Opposite(m, n) == (m < 0 /\ n > 0) \/ (m > 0 /\ n < 0)

\* The segments a-b and c-d have a point in common.
SegmentsMeet(a, b, c, d) ==
    \/ /\ Opposite(Cross(c, d, a), Cross(c, d, b))
       /\ Opposite(Cross(a, b, c), Cross(a, b, d))
    \/ OnSegment(a, c, d)
    \/ OnSegment(b, c, d)
    \/ OnSegment(c, a, b)
    \/ OnSegment(d, a, b)

\* The segment q-b runs back over the segment a-q.
Backtracks(a, q, b) ==
    /\ Cross(q, a, b) = 0
    /\ (a[1] - q[1]) * (b[1] - q[1]) + (a[2] - q[2]) * (b[2] - q[2]) > 0

\* The closed line r does not touch or cross itself.
IsSimple(r) ==
    LET n == Len(r) - 1 IN
    /\ \A k \in 1..n : r[k] # r[k + 1]
    /\ \A i, j \in 1..n :
        i < j =>
            IF j = i + 1
            THEN ~Backtracks(r[i], r[j], r[j + 1])
            ELSE IF i = 1 /\ j = n
            THEN ~Backtracks(r[n], r[1], r[2])
            ELSE ~SegmentsMeet(r[i], r[i + 1], r[j], r[j + 1])

\* A ring of a polygon: closed, at least four coordinates, simple.
LinearRing_is_valid(r) == Len(r) >= 4 /\ IsClosed(r) /\ IsSimple(r)

\* list(polygonize(merged_lines)): the rings the lines form once the dangles
\* are gone; a ring that is not valid gives no polygon.  A polygon is
\* written as its exterior ring (the lines of the model are too few to nest).
polygonize(ls) ==
    SelectSeq(linemerge(delete_dangles(ls)), LinearRing_is_valid)

-----------------------------------------------------------------------------
(* parse_ways_to_geometry: assembly, fallback and the returned shape       *)

\* A Python value of the geometry code: a shapely geometry (type and the
\* rings of its parts), None, or a str holding WKT (tag is its keyword).
Value(type, tag, rings) == [type |-> type, tag |-> tag, rings |-> rings]

PyNone == Value("NoneType", "", <<>>)

\* Polygon(shell), written as its exterior ring.
Polygon(shell) == Value("Polygon", "", <<shell>>)

\* MultiPolygon(polygons), written as the rings of its parts.
MultiPolygon(shells) == Value("MultiPolygon", "", shells)

\* How a call ended.
Returned(v) == [kind |-> "return", value |-> v, exc |-> ""]

Raised(exc) == [kind |-> "raise", value |-> PyNone, exc |-> exc]

NotRun == [kind |-> "unset", value |-> PyNone, exc |-> ""]

Abs(n) == IF n < 0 THEN -n ELSE n

\* l.length.  Every segment of the model's inputs is parallel to an axis.
RECURSIVE Length(_)
Length(l) ==
    IF Len(l) < 2
    THEN 0
    ELSE Abs(l[2][1] - l[1][1]) + Abs(l[2][2] - l[1][2]) + Length(Tail(l))

\* max(merged_lines, key=lambda l: l.length): max takes the first line of
\* greatest length, and the order of the merged lines is linemerge's own, so
\* any line of greatest length can be the one.
Longest_by_nodes(ls) ==
    {k \in 1..Len(ls) : \A m \in 1..Len(ls) : Len(ls[m]) <= Len(ls[k])}

Longest(ls) ==
    {k \in 1..Len(ls) : \A m \in 1..Len(ls) : Length(ls[m]) <= Length(ls[k])}

\* The ring Polygon(coords) builds: the coordinates, closed if they are not.
LinearRing(c) == IF IsClosed(c) THEN c ELSE Append(c, c[1])

\* longest.is_ring or (longest.coords[0] == longest.coords[-1])
closes_unchecked(longest) == TRUE

closes(longest) == IsClosed(longest)

\* The fallback when polygonize gave nothing: Polygon(longest.coords) for a
\* closed longest line, returned if valid.  Polygon() raises ValueError on a
\* ring of fewer than four coordinates.
fallback(longest) ==
    IF closes(longest)
    THEN IF Len(LinearRing(longest)) < 4
         THEN Raised("ValueError")
         ELSE IF LinearRing_is_valid(LinearRing(longest))
         THEN Returned(Polygon(LinearRing(longest)))
         ELSE Returned(PyNone)
    ELSE Returned(PyNone)

\* Two rings without a common point.
Apart(r, s) ==
    \A i \in 1..(Len(r) - 1), j \in 1..(Len(s) - 1) :
        ~SegmentsMeet(r[i], r[i + 1], s[j], s[j + 1])

\* unary_union(valid_polygons) of polygons that lie apart: a MultiPolygon of
\* them, which the code returns as it is.
unary_union_first(shells) == Polygon(shells[1])

unary_union(shells) == MultiPolygon(shells)

\* The last step: one valid polygon is returned itself, several are united.
combine_as_multi(valid_polygons) == Returned(unary_union(valid_polygons))

combine(valid_polygons) ==
    IF Len(valid_polygons) = 1
    THEN Returned(Polygon(valid_polygons[1]))
    ELSE Returned(unary_union(valid_polygons))

\* From polygonize to the return.  The polygons of polygonize are valid and
\* not empty, so the buffer(0) repair of the loop over polygons is never
\* taken and valid_polygons is polygons.
assemble(merged_lines, k) ==
    LET polygons == polygonize(merged_lines)
        valid_polygons == SelectSeq(polygons, LinearRing_is_valid)
    IN IF polygons = <<>>
       THEN fallback(merged_lines[k])
       ELSE IF valid_polygons = <<>>
       THEN Returned(PyNone)
       ELSE combine(valid_polygons)

\* parse_ways_to_geometry(ways)
parse_ways_to_geometry ==
    /\ pw_pc = "call"
    /\ pw_pc' = "done"
    /\ LET lines == LineStrings(pw_ways)
           merged_lines == linemerge(lines)
       IN IF pw_ways = <<>> \/ lines = <<>>
          THEN /\ pw_lines' = lines
               /\ pw_merged_lines' = <<>>
               /\ pw_result' = Returned(PyNone)
          ELSE /\ pw_lines' = lines
               /\ pw_merged_lines' = merged_lines
               /\ \E k \in Longest(merged_lines) :
                       pw_result' = assemble(merged_lines, k)
    /\ UNCHANGED <<pw_ways, normVars>>
    /\ UNCHANGED <<clientVars, cacheVars, metaVars, svcVars>>

\* The lines meet at end points only and form separate rings: what is left
\* of them without the dangles is a set of closed lines that lie apart.
\* linemerge and polygonize are modelled for such lines.
Noded(ls) ==
    LET rs == linemerge(delete_dangles(ls)) IN
    /\ \A i \in 1..Len(rs) : IsClosed(rs[i]) /\ Degree(rs, rs[i][1]) = 2
    /\ \A i, j \in 1..Len(rs) : i < j => Apart(rs[i], rs[j])

WayLists ==
    {ws \in UNION {[1..n -> WayElems] : n \in 0..MaxWays} :
        Noded(LineStrings(ws))}

WaysNotRun ==
    /\ pw_pc = "call"
    /\ pw_lines = <<>>
    /\ pw_merged_lines = <<>>
    /\ pw_result = NotRun

WaysInit == pw_ways \in WayLists /\ WaysNotRun

WaysIdle == pw_ways = <<>> /\ WaysNotRun

\* Ways that drive the steps after linemerge: the degenerate closed way
\* A-B-A, a closed way that runs out and back over itself, open ways of
\* length 2 (three nodes), 3 (two nodes) and 5 (two nodes), a closed way
\* around a square, and the two halves of the boundary of another square.
\* Ways that have a point in common have it at an end of each.
AssemblyElems ==
    {WayAt(<<<<0, 0>>, <<1, 0>>, <<0, 0>>>>),
     WayAt(<<<<4, 0>>, <<5, 0>>, <<5, 1>>, <<5, 0>>, <<4, 0>>>>),
     WayAt(<<<<0, 2>>, <<1, 2>>, <<1, 3>>>>),
     WayAt(<<<<6, 0>>, <<9, 0>>>>),
     WayAt(<<<<6, 2>>, <<11, 2>>>>),
     WayAt(<<<<2, 0>>, <<3, 0>>, <<3, 1>>, <<2, 1>>, <<2, 0>>>>),
     WayAt(<<<<0, 4>>, <<1, 4>>, <<1, 5>>>>),
     WayAt(<<<<1, 5>>, <<0, 5>>, <<0, 4>>>>)}

AssemblyLists ==
    {ws \in UNION {[1..n -> AssemblyElems] : n \in 0..MaxWays} :
        Noded(LineStrings(ws))}

AssemblyInit == pw_ways \in AssemblyLists /\ WaysNotRun

-----------------------------------------------------------------------------
(* normalize_geometry                                                      *)

MaxParts == 2

\* Exterior rings: two squares that lie apart, a ring that runs back over
\* itself and a ring that crosses itself.
Shells ==
    {<<<<0, 0>>, <<1, 0>>, <<1, 1>>, <<0, 1>>, <<0, 0>>>>,
     <<<<2, 0>>, <<3, 0>>, <<3, 1>>, <<2, 1>>, <<2, 0>>>>,
     <<<<0, 0>>, <<1, 0>>, <<1, 1>>, <<1, 0>>, <<0, 0>>>>,
     <<<<0, 0>>, <<1, 1>>, <<1, 0>>, <<0, 1>>, <<0, 0>>>>}

EmptyPolygon == Value("Polygon", "", <<>>)

\* The shapes normalize_geometry is given: polygons, multi-polygons of up to
\* MaxParts parts, lines and a point.
Geoms ==
    {Polygon(r) : r \in Shells}
    \cup {EmptyPolygon}
    \cup {MultiPolygon(rs) : rs \in UNION {[1..n -> Shells] : n \in 0..MaxParts}}
    \cup {Value("LineString", "", <<<<<<0, 0>>, <<1, 0>>, <<1, 1>>>>>>),
          Value("LineString", "", <<<<<<0, 0>>, <<0, 0>>>>>>),
          Value("Point", "", <<<<<<0, 0>>>>>>)}

\* geom.is_valid
is_valid(g) ==
    CASE g.type = "Polygon" ->
            \A i \in 1..Len(g.rings) : LinearRing_is_valid(g.rings[i])
      [] g.type = "MultiPolygon" ->
            /\ \A i \in 1..Len(g.rings) : LinearRing_is_valid(g.rings[i])
            /\ \A i, j \in 1..Len(g.rings) :
                    i < j => Apart(g.rings[i], g.rings[j])
      [] g.type = "LineString" -> LineString_is_valid(g.rings[1])
      [] OTHER -> TRUE

\* geom.buffer(0) of an invalid shape: what GEOS makes of it depends on how
\* the rings wind and overlap, so any valid result is possible: the empty
\* polygon (all a line or point can give), a polygon, a multi-polygon.
buffer(g) ==
    IF g.type \in {"Polygon", "MultiPolygon"}
    THEN {h \in Geoms : h.type \in {"Polygon", "MultiPolygon"} /\ is_valid(h)}
    ELSE {EmptyPolygon}

\* geom.wkt
wkt(g) ==
    Value("str",
          CASE g.type = "Polygon" -> "POLYGON"
            [] g.type = "MultiPolygon" -> "MULTIPOLYGON"
            [] g.type = "LineString" -> "LINESTRING"
            [] OTHER -> "POINT",
          g.rings)

\* MultiPolygon([geom]) for a Polygon geom; an empty polygon is left out.
wrap_bare(g) == g

wrap(g) == MultiPolygon(g.rings)

\* geom at the return statement, for the shape g left by the repair step;
\* PyNone when the function returns None before it.
canonical(g) ==
    IF g.type = "Polygon"
    THEN wrap(g)
    ELSE IF g.type # "MultiPolygon"
    THEN PyNone
    ELSE g

\* if not geom.is_valid: the repair step runs.
needs_repair_always(geom) == TRUE

needs_repair(geom) == ~is_valid(geom)

\* normalize_geometry(geom), with fixed the result of geom.buffer(0) if it is
\* called.  A str or None has no is_valid attribute.
normalize(geom, fixed) ==
    IF geom.type \in {"str", "NoneType"}
    THEN Raised("AttributeError")
    ELSE LET g == IF needs_repair(geom) THEN fixed ELSE geom IN
         IF canonical(g) = PyNone
         THEN Returned(PyNone)
         ELSE Returned(wkt(canonical(g)))

\* The results buffer(0) can give, if normalize_geometry(geom) calls it.
Repairs(geom) ==
    IF geom.type \in {"str", "NoneType"}
    THEN {geom}
    ELSE IF needs_repair(geom) THEN buffer(geom) ELSE {geom}

\* normalize_geometry(geom) on the given shape.
normalize_geometry ==
    /\ nz_pc = "call"
    /\ nz_pc' = "done"
    /\ \E fixed \in Repairs(nz_geom) :
        /\ nz_out' = normalize(nz_geom, fixed)
        /\ nz_multi' = canonical(fixed)
    /\ UNCHANGED <<nz_geom, nz_again, nz_same, waysVars>>
    /\ UNCHANGED <<clientVars, cacheVars, metaVars, svcVars>>

\* normalize_geometry applied to what the first call returned.
normalize_returned ==
    /\ nz_pc = "done"
    /\ nz_again = NotRun
    /\ \E fixed \in Repairs(nz_out.value) :
        nz_again' = normalize(nz_out.value, fixed)
    /\ UNCHANGED <<nz_geom, nz_pc, nz_multi, nz_out, nz_same, waysVars>>
    /\ UNCHANGED <<clientVars, cacheVars, metaVars, svcVars>>

\* normalize_geometry applied to the multi-polygon the first call serialised.
normalize_multi ==
    /\ nz_pc = "done"
    /\ nz_multi # PyNone
    /\ nz_same = NotRun
    /\ \E fixed \in Repairs(nz_multi) :
        nz_same' = normalize(nz_multi, fixed)
    /\ UNCHANGED <<nz_geom, nz_pc, nz_multi, nz_out, nz_again, waysVars>>
    /\ UNCHANGED <<clientVars, cacheVars, metaVars, svcVars>>

NormNotRun ==
    /\ nz_pc = "call"
    /\ nz_multi = PyNone
    /\ nz_out = NotRun
    /\ nz_again = NotRun
    /\ nz_same = NotRun

NormInit == nz_geom \in Geoms /\ NormNotRun

NormIdle == nz_geom = EmptyPolygon /\ NormNotRun

-----------------------------------------------------------------------------
(* AnalyticsService.process_events_batch and AnalyticsRepository           *)

\* Events in one batch (the schema admits 1 to 200).
MaxBatch == 2

\* Batches processed in one run, one after another.
MaxBatches == 2

\* Events the frontend may send (AnalyticsEventRequest).  Time stamps 1 and 2
\* fall on one calendar day, 3 on the next.  The second event carries a
\* viewer_id that differs from its client_id.
AnEvents ==
    { [event_id |-> 1, event_name |-> "item_card_open_short", event_ts |-> 1,
       client_id |-> "c1", viewer_id |-> "c1", entity_id |-> 144],
      [event_id |-> 2, event_name |-> "item_card_open_short", event_ts |-> 2,
       client_id |-> "c1", viewer_id |-> "c2", entity_id |-> 144],
      [event_id |-> 3, event_name |-> "item_card_open_short", event_ts |-> 3,
       client_id |-> "c1", viewer_id |-> "c1", entity_id |-> 144],
      [event_id |-> 4, event_name |-> "item_card_open_full", event_ts |-> 1,
       client_id |-> "c1", viewer_id |-> "c1", entity_id |-> 144],
      [event_id |-> 5, event_name |-> "page_view", event_ts |-> 2,
       client_id |-> "c1", viewer_id |-> "c1", entity_id |-> 144],
      [event_id |-> 6, event_name |-> "item_card_open", event_ts |-> 1,
       client_id |-> "c2", viewer_id |-> "c2", entity_id |-> 144] }

\* EventsBatchRequest.events: min_length=1.
Batches == UNION {[1..n -> AnEvents] : n \in 1..MaxBatch}

ALLOWED_EVENTS ==
    {"item_card_open_short", "item_card_open_full", "booking_start",
     "booking_complete", "booking_abandon"}

validate_event_whitelist_all(event_name) == TRUE

validate_event_whitelist(event_name) == event_name \in ALLOWED_EVENTS

\* enrich_event: viewer_id is overwritten with client_id.
enrich_event(event) ==
    [event_id |-> event.event_id, event_name |-> event.event_name,
     event_ts |-> event.event_ts, client_id |-> event.client_id,
     viewer_id |-> event.client_id, entity_id |-> event.entity_id]

\* datetime.date() of a time stamp.
date(event_ts) == (event_ts + 1) \div 2

extract_daily_view(event) ==
    IF event.event_name # "item_card_open_short"
    THEN PyNone
    ELSE [banner_id |-> event.entity_id, viewer_id |-> event.client_id,
          view_date |-> date(event.event_ts),
          first_event_ts |-> event.event_ts]

extract_batch_views(events) ==
    LET IsView(e) == extract_daily_view(e) # PyNone
        kept == SelectSeq(events, IsView)
    IN [i \in 1..Len(kept) |-> extract_daily_view(kept[i])]

\* PrimaryKeyConstraint("banner_id", "viewer_id", "view_date")
PrimaryKey(row) == <<row.banner_id, row.viewer_id, row.view_date>>

\* Two rows of one statement carry the same primary key.
RepeatedKey(views) ==
    \E i, j \in 1..Len(views) :
        i # j /\ PrimaryKey(views[i]) = PrimaryKey(views[j])

\* insert(rows, upsert=True): Prefer: resolution=merge-duplicates.  A row
\* whose primary key is in the table replaces the columns of that row.
merge_duplicates(table, views) ==
    LET new == {views[i] : i \in 1..Len(views)}
    IN {r \in table : \A v \in new : PrimaryKey(v) # PrimaryKey(r)}
       \cup new

NoResult == [kind |-> "none", accepted |-> 0, rejected |-> 0]

BatchReturned(saved_count) ==
    [kind |-> "return", accepted |-> saved_count,
     rejected |-> Len(an_rejected)]

\* What len(response.data) may be after the insert of n rows.
Inserted(n) == 0..n

\* process_events_batch up to its first await: the whitelist loop.
process_events_batch(batch) ==
    /\ an_pc = "idle"
    /\ an_n < MaxBatches
    /\ an_n' = an_n + 1
    /\ an_batch' = batch
    /\ LET IsValid(e) == validate_event_whitelist(e.event_name)
           IsRejected(e) == ~validate_event_whitelist(e.event_name)
       IN /\ an_valid' = SelectSeq(batch, IsValid)
          /\ an_rejected' = SelectSeq(batch, IsRejected)
          /\ an_pc' = IF SelectSeq(batch, IsValid) = <<>>
                      THEN "log_rejected"
                      ELSE "save_events"
    /\ an_saved' = <<>>
    /\ an_saved_count' = 0
    /\ an_attempts' = <<>>
    /\ an_result' = NoResult
    /\ UNCHANGED daily_item_views
    /\ UNCHANGED <<clientVars, cacheVars, metaVars, geoVars, bareVars>>

\* Lines 84-93 of process_events_batch, reached with saved_count.
AfterViews(saved_count) ==
    IF an_rejected # <<>>
    THEN /\ an_pc' = "log_rejected"
         /\ an_result' = an_result
    ELSE /\ an_pc' = "idle"
         /\ an_result' = BatchReturned(saved_count)

\* AnalyticsRepository.save_events(enriched_events) returns inserted, or
\* raises what execute() raised (fail).
save_events(fail, inserted) ==
    /\ an_pc = "save_events"
    /\ fail => inserted = 0
    /\ an_saved' = Append(an_saved,
                     [i \in 1..Len(an_valid) |-> enrich_event(an_valid[i])])
    /\ IF fail
       THEN /\ an_pc' = "idle"
            /\ an_result' = [NoResult EXCEPT !.kind = "raise"]
            /\ UNCHANGED an_saved_count
       ELSE /\ an_saved_count' = inserted
            /\ IF extract_batch_views(an_valid) # <<>>
               THEN /\ an_pc' = "upsert_daily_views"
                    /\ an_result' = an_result
               ELSE AfterViews(inserted)
    /\ UNCHANGED <<an_batch, an_n, an_valid, an_rejected, an_attempts,
                   daily_item_views>>
    /\ UNCHANGED <<clientVars, cacheVars, metaVars, geoVars, bareVars>>

\* AnalyticsRepository.upsert_daily_views(views) returns or raises; fail: the
\* store answers with an error.  It always does when two rows of the
\* statement have one primary key (ON CONFLICT DO UPDATE cannot affect a row
\* a second time).
upsert_daily_views(fail) ==
    /\ an_pc = "upsert_daily_views"
    /\ LET views == extract_batch_views(an_valid)
       IN IF fail \/ RepeatedKey(views)
          THEN /\ an_pc' = "idle"
               /\ an_result' = [NoResult EXCEPT !.kind = "raise"]
               /\ UNCHANGED daily_item_views
          ELSE /\ daily_item_views' = merge_duplicates(daily_item_views, views)
               /\ AfterViews(an_saved_count)
    /\ UNCHANGED <<an_batch, an_n, an_valid, an_rejected, an_saved,
                   an_saved_count, an_attempts>>
    /\ UNCHANGED <<clientVars, cacheVars, metaVars, geoVars, bareVars>>

\* One turn of the loop of _log_rejected_events; fail: save_rejected_event
\* raises and the except clause logs it.  After the last turn
\* process_events_batch returns.
log_rejected_events(fail) ==
    /\ an_pc = "log_rejected"
    /\ LET i == Len(an_attempts) + 1
       IN /\ an_attempts' = Append(an_attempts,
                              [event |-> an_rejected[i], saved |-> ~fail])
          /\ IF i = Len(an_rejected)
             THEN /\ an_pc' = "idle"
                  /\ an_result' = BatchReturned(an_saved_count)
             ELSE UNCHANGED <<an_pc, an_result>>
    /\ UNCHANGED <<an_batch, an_n, an_valid, an_rejected, an_saved,
                   an_saved_count, daily_item_views>>
    /\ UNCHANGED <<clientVars, cacheVars, metaVars, geoVars, bareVars>>

AnalyticsInit ==
    /\ an_batch = <<>>
    /\ an_pc = "idle"
    /\ an_n = 0
    /\ an_valid = <<>>
    /\ an_rejected = <<>>
    /\ an_saved = <<>>
    /\ an_saved_count = 0
    /\ an_attempts = <<>>
    /\ an_result = NoResult
    /\ daily_item_views = {}

-----------------------------------------------------------------------------
(* Specifications                                                          *)

CacheIdle == CacheInit /\ store = NoText

MetaIdle == MetaInit /\ md_elements = <<>>

GeoIdle == WaysIdle /\ NormIdle

SvcIdle == BareInit /\ AnalyticsInit

Init == ClientInit /\ CacheInit /\ MetaIdle /\ GeoIdle /\ SvcIdle

InitClient == ClientInit /\ CacheIdle /\ MetaIdle /\ GeoIdle /\ SvcIdle

InitMeta == ClientInit /\ CacheIdle /\ MetaInit /\ GeoIdle /\ SvcIdle

InitWays ==
    ClientInit /\ CacheIdle /\ MetaIdle /\ WaysInit /\ NormIdle /\ SvcIdle

InitNorm ==
    ClientInit /\ CacheIdle /\ MetaIdle /\ WaysIdle /\ NormInit /\ SvcIdle

InitAssembly ==
    ClientInit /\ CacheIdle /\ MetaIdle /\ AssemblyInit /\ NormIdle /\ SvcIdle

NextAssembly == parse_ways_to_geometry

\* parse_ways_to_geometry on the ways of AssemblyElems.
SpecAssembly == InitAssembly /\ [][NextAssembly]_vars

NextWays == parse_ways_to_geometry

\* parse_ways_to_geometry on every list of ways within the bounds.
SpecWays == InitWays /\ [][NextWays]_vars

NextNorm ==
    \/ normalize_geometry
    \/ normalize_returned
    \/ normalize_multi

\* normalize_geometry on every shape within the bounds, and once more on what
\* the first call returned and on what it serialised.
SpecNorm == InitNorm /\ [][NextNorm]_vars

NextMeta == parse_element

\* parse_districts_metadata on every input within the bounds.
SpecMeta == InitMeta /\ [][NextMeta]_vars

InitAnalytics == ClientInit /\ CacheIdle /\ MetaIdle /\ GeoIdle /\ SvcIdle

NextAnalytics ==
    \/ \E batch \in Batches : process_events_batch(batch)
    \/ \E fail \in BOOLEAN, inserted \in Inserted(Len(an_valid)) :
            save_events(fail, inserted)
    \/ \E fail \in BOOLEAN : upsert_daily_views(fail)
    \/ \E fail \in BOOLEAN : log_rejected_events(fail)

\* Batches processed one after another.
SpecAnalytics == InitAnalytics /\ [][NextAnalytics]_vars

\* The same, where a call that is awaited comes back and the function goes
\* on from it.
SpecAnalyticsFair == SpecAnalytics /\ WF_vars(NextAnalytics)

\* The query client under concurrent callers.
SpecClient == InitClient /\ [][NextClient]_vars

NextCache ==
    \/ \E t \in Tasks : Cache_init(t)
    \/ \E t \in Tasks : Cache_close(t)
    \/ \E t \in Tasks, out \in ReadOutcomes : Cache_get(t, out)
    \/ \E t \in Tasks, x \in Texts, out \in WriteOutcomes : Cache_set(t, x, out)
    \/ \E t \in Tasks, out \in WriteOutcomes : Cache_delete(t, out)
    \/ \E t \in Tasks, city \in Cities, out \in ReadOutcomes :
            Cache_delete_city(t, city, out)
    \/ \E t \in Tasks, fail \in BOOLEAN : ping_return(t, fail)
    \/ \E t \in Tasks, fail \in BOOLEAN : cleanup_return(t, fail)
    \/ \E t \in Tasks, out \in WriteOutcomes : delete_city_resume(t, out)

\* The cache under concurrent callers.
SpecCache == Init /\ [][NextCache]_vars

\* One call after another: no call starts while another is in progress.
NextCacheSeq ==
    \/ \E t \in Tasks : Quiet /\ Cache_init(t)
    \/ \E t \in Tasks : Quiet /\ Cache_close(t)
    \/ \E t \in Tasks, out \in ReadOutcomes : Quiet /\ Cache_get(t, out)
    \/ \E t \in Tasks, x \in Texts, out \in WriteOutcomes :
            Quiet /\ Cache_set(t, x, out)
    \/ \E t \in Tasks, out \in WriteOutcomes : Quiet /\ Cache_delete(t, out)
    \/ \E t \in Tasks, city \in Cities, out \in ReadOutcomes :
            Quiet /\ Cache_delete_city(t, city, out)
    \/ \E t \in Tasks, fail \in BOOLEAN : ping_return(t, fail)
    \/ \E t \in Tasks, fail \in BOOLEAN : cleanup_return(t, fail)
    \/ \E t \in Tasks, out \in WriteOutcomes : delete_city_resume(t, out)

SpecCacheSeq == Init /\ [][NextCacheSeq]_vars

\* A RedisCache of the caller's own, one call after another.
NextRedis ==
    \/ \E t \in Tasks, fail \in BOOLEAN : Quiet /\ RedisCache_init(t, fail)
    \/ \E t \in Tasks, fail \in BOOLEAN : Quiet /\ RedisCache_cleanup(t, fail)
    \/ \E t \in Tasks, out \in ReadOutcomes : Quiet /\ RedisCache_get(t, out)
    \/ \E t \in Tasks, x \in Texts, out \in WriteOutcomes :
            Quiet /\ RedisCache_set(t, x, out)
    \/ \E t \in Tasks, out \in WriteOutcomes :
            Quiet /\ RedisCache_delete(t, out)
    \/ \E t \in Tasks, city \in Cities, out \in ReadOutcomes :
            Quiet /\ RedisCache_delete_city(t, city, out)
    \/ \E t \in Tasks, out \in WriteOutcomes : delete_city_resume(t, out)

SpecRedis == Init /\ [][NextRedis]_vars

\* init and close of the two facades, of an OverpassApiClient and of a
\* RedisCache, under concurrent callers.  The components share no state: a
\* run works on one of them and leaves the others as they started.
OnlyClient == CacheIdle /\ BareInit

OnlyCache ==
    /\ ClientInit
    /\ BareInit
    /\ \A t \in Tasks : cop[t].via # "direct"

OnlyRedis ==
    /\ ClientInit
    /\ ca_n = 0
    /\ \A t \in Tasks : cop[t].via # "facade"

NextLifecycle ==
    \/ \E t \in Tasks, fail \in BOOLEAN :
            OnlyClient /\ OverpassClient_init(t, fail)
    \/ \E t \in Tasks : OnlyClient /\ OverpassClient_close(t)
    \/ \E t \in Tasks, fail \in BOOLEAN :
            OnlyClient /\ OverpassApiClient_init(t, fail)
    \/ \E t \in Tasks : OnlyClient /\ OverpassApiClient_close(t)
    \/ \E t \in Tasks, fail \in BOOLEAN : aclose_return(t, fail)
    \/ \E t \in Tasks : OnlyCache /\ Cache_init(t)
    \/ \E t \in Tasks, fail \in BOOLEAN : ping_return(t, fail)
    \/ \E t \in Tasks : OnlyCache /\ Cache_close(t)
    \/ \E t \in Tasks, fail \in BOOLEAN : cleanup_return(t, fail)
    \/ \E t \in Tasks, fail \in BOOLEAN :
            OnlyRedis /\ RedisCache_init(t, fail)
    \/ \E t \in Tasks, fail \in BOOLEAN :
            OnlyRedis /\ RedisCache_cleanup(t, fail)

SpecLifecycle == InitClient /\ [][NextLifecycle]_vars

-----------------------------------------------------------------------------
(* Claims about the query client                                           *)

\* C1: the client enforces one process-wide ceiling of RpsLimit requests per
\* second: within one second (between two clock ticks) at most RpsLimit
\* requests are sent, however many tasks call execute concurrently.
C1_RateCeiling == sentThisSecond <= RpsLimit

\* C2: a connect or timeout error is surfaced to the caller only after every
\* configured attempt (overpass_retry_attempts) has been made and has failed.
C2_RetriedBeforeTerminalError ==
    \A t \in Tasks :
        (call[t].op = "execute" /\ call[t].pc = "idle"
            /\ call[t].kind \in {"ConnectError", "TimeoutException"})
        => call[t].sends >= RetryAttempts

\* The transport answered task t's execute with a non-2xx response.
GotRejection(t) ==
    /\ call[t].op = "execute"
    /\ call[t].pc = "idle"
    /\ call[t].got.exc = "none"
    /\ ~IsSuccess(call[t].got.status)

\* C3: when the endpoint answers an execute request with a non-2xx status the
\* call ends after exactly one request, with an error that carries the
\* response's status and body, and returns no data.
C3_RejectionNotRetried ==
    \A t \in Tasks :
        GotRejection(t) =>
            /\ call[t].kind = "HTTPStatusError"
            /\ call[t].status = call[t].got.status
            /\ call[t].body = call[t].got.body
            /\ call[t].sends = 1
            /\ call[t].data = "none"

C3_Witness ==
    \E t \in Tasks :
        /\ GotRejection(t)
        /\ call[t].got.status = 503
        /\ call[t].got.body = "<html>busy</html>"
        /\ call[t].kind = "HTTPStatusError"

C19_RequestCarriesQuery ==
    \A t \in Tasks :
        (call[t].op = "execute" /\ call[t].pc = "post") =>
            /\ call[t].url = EndpointUrl
            /\ call[t].reqbody = call[t].query

-----------------------------------------------------------------------------
(* Claims about the districts cache                                        *)

CacheOps == {"get", "set", "delete", "delete_city"}

\* C5: a get, set, delete or deleteCity issued while the cache is not
\* initialized (no Cache.init has returned yet, or none since the last
\* Cache.close) fails with the 'not initialized' error and issues no command
\* to the store.
C5_CacheNeedsInit ==
    \A t \in Tasks :
        (cop[t].op \in CacheOps /\ ~cop[t].live)
        => /\ cop[t].pc = "idle"
           /\ cop[t].kind = "NotInitialized"
           /\ cop[t].cmds = 0

\* All four operations were refused after an init and a close.
C5_Witness ==
    /\ ca_n >= 1
    /\ rc_client[1] = "None"
    /\ ca_impl = 0
    /\ \E t, u \in Tasks :
        /\ cop[t].op = "delete_city" /\ cop[t].kind = "NotInitialized"
        /\ ~cop[t].live
        /\ cop[u].op = "set" /\ cop[u].kind = "NotInitialized"
        /\ ~cop[u].live

\* Task t's deleteCity returns (its read-modify-write ends without an error).
DeleteCityReturns(t) ==
    /\ cop[t].pc = "rmw"
    /\ cop'[t].pc = "idle"
    /\ cop'[t].kind = "ok"

\* C6: deleteCity(city_code) on a cache whose stored mapping contains
\* city_code returns true and leaves a mapping without city_code in which
\* every other key keeps its district list; a get returns what is stored.
C6_DeleteCityFrame ==
    [][ /\ \A t \in Tasks :
            (DeleteCityReturns(t) /\ cop[t].raw.kind = "dict"
                /\ cop[t].city \in cop[t].raw.keys)
            => /\ cop'[t].ret
               /\ store'.kind = "dict"
               /\ store'.keys = cop[t].raw.keys \ {cop[t].city}
               /\ \A k \in store'.keys : store'.dl[k] = cop[t].raw.dl[k]
        /\ \A t \in Tasks :
            (CIdle(t) /\ cop'[t].op = "get" /\ cop'[t].kind = "ok"
                /\ cop'[t] # cop[t])
            => cop'[t].val = store'
      ]_vars

\* A deleteCity returned true and the other city is still stored with its
\* districts.
C6_Witness ==
    /\ store = DictText("dumps", {"khabarovsk"})
    /\ \E t \in Tasks :
        /\ cop[t].op = "delete_city" /\ cop[t].kind = "ok" /\ cop[t].ret
        /\ cop[t].had

\* C7: deleteCity(city_code) returns true if and only if city_code was a key
\* of the stored mapping when it was called (false for an absent blob and for
\* a blob without the key).
C7_DeleteCityResult ==
    \A t \in Tasks :
        (cop[t].op = "delete_city" /\ cop[t].pc = "idle" /\ cop[t].kind = "ok")
        => (cop[t].ret <=> cop[t].had)

C7_Witness ==
    \E t, u \in Tasks :
        /\ cop[t].op = "delete_city" /\ cop[t].kind = "ok"
        /\ cop[t].ret /\ cop[t].had
        /\ cop[u].op = "delete_city" /\ cop[u].kind = "ok"
        /\ ~cop[u].ret /\ ~cop[u].had
        /\ store # NoText

\* A set or delete of task t returns without an error.
WriteReturns(t, op) ==
    /\ CIdle(t)
    /\ cop'[t] # cop[t]
    /\ cop'[t].op = op
    /\ cop'[t].kind = "ok"

\* C8: set(text) is a full overwrite and delete() is idempotent: the store
\* holds exactly the text of the last set, or nothing if a delete followed,
\* whatever it held before; a get returns exactly that; a delete of an absent
\* blob succeeds and leaves it absent.
C8_SetOverwriteDeleteIdempotent ==
    /\ [](lastWrite # Unknown => store = lastWrite)
    /\ [][ \A t \in Tasks :
            /\ (WriteReturns(t, "set") => lastWrite' \in Texts /\ store' = lastWrite')
            /\ (WriteReturns(t, "delete") => lastWrite' = NoText /\ store' = NoText)
            /\ (WriteReturns(t, "get") /\ lastWrite # Unknown
                    => cop'[t].val = lastWrite)
         ]_vars

\* A delete of an absent blob succeeded, and a get returned the text of the
\* last set, which replaced another text.
C8_Witness ==
    /\ lastWrite = DictText("other", Cities)
    /\ \E t, u \in Tasks :
        /\ cop[t].op = "delete" /\ cop[t].kind = "ok" /\ ~cop[t].had
        /\ cop[u].op = "get" /\ cop[u].kind = "ok"
        /\ cop[u].val = DictText("other", Cities)

\* C17: when the store raises a connection, timeout or command error during
\* get, set, delete or deleteCity, the operation ends with that error; it
\* returns no value (no text, no true/false) in its place.
C17_StoreErrorSurfaced ==
    \A t \in Tasks :
        (CIdle(t) /\ cop[t].op \in CacheOps /\ cop[t].err) =>
            /\ cop[t].kind = "RedisError"
            /\ cop[t].val = NoText
            /\ ~cop[t].ret

\* A deleteCity whose GET succeeded and whose write back failed ended with
\* the error.
C17_Witness ==
    \E t \in Tasks :
        /\ CIdle(t)
        /\ cop[t].op = "delete_city"
        /\ cop[t].cmds = 2
        /\ cop[t].err
        /\ cop[t].had
        /\ cop[t].kind = "RedisError"

\* The implementation objects that hold a connection pool / an HTTP client.
LiveCaches == {o \in CacheObjs : rc_client[o] = "set"}

LiveClients == {o \in 1..MaxImpls : api_client[o] \in {"open", "closed"}}

\* C18: the facades hold one implementation for the whole process: at most
\* one RedisCache with a connection pool and at most one OverpassApiClient
\* with an HTTP client exist at any time, also when init is called by
\* several tasks at once, and an implementation the facade no longer holds
\* has been released.
C18_OneImplementation ==
    /\ Cardinality(LiveCaches) <= 1
    /\ Cardinality(LiveClients) <= 1
    /\ \A o \in LiveCaches : o = ca_impl
    /\ \A o \in LiveClients : o = oc_impl

\* C26: deleteCity is atomic with respect to the other writers: when a
\* deleteCity returns true, what it leaves is the mapping stored at that
\* moment without its city, every other key with its list - nothing that
\* another deleteCity or a set wrote since the call began is undone.
C26_DeleteCityAtomic ==
    [][\A t \in Tasks :
        (DeleteCityReturns(t) /\ cop'[t].ret) =>
            /\ store.kind = "dict"
            /\ store'.kind = "dict"
            /\ store'.keys = store.keys \ {cop[t].city}
            /\ \A k \in store'.keys : store'.dl[k] = store.dl[k]
      ]_vars

\* Task t's deleteCity returns false in this step.
DeleteCityReturnsFalse(t) ==
    /\ cop'[t] # cop[t]
    /\ cop'[t].op = "delete_city"
    /\ cop'[t].pc = "idle"
    /\ cop'[t].kind = "ok"
    /\ ~cop'[t].ret

\* C27 (as stated): a deleteCity call that returns false leaves the stored
\* value as it was, whatever the value is.
C27_FalseLeavesBlob ==
    [][\A t \in Tasks : DeleteCityReturnsFalse(t) => store' = store]_vars

\* C27 (amended): a deleteCity call that returns false leaves the stored
\* value as it was when the value is absent or is JSON (a mapping without
\* the key, or not a mapping); when the text it read is not valid JSON the
\* call deletes the key, and the value is absent afterwards.
C27_FalseLeavesJsonBlob ==
    [][\A t \in Tasks :
        DeleteCityReturnsFalse(t) =>
            IF cop[t].pc = "rmw" /\ cop[t].raw.kind = "invalid"
            THEN store' = NoText
            ELSE store' = store
      ]_vars

\* A deleteCity read text that is not JSON, sent the DELETE and returned
\* false, and the key is absent; another deleteCity returned false on a
\* value it left alone.
C27_Witness ==
    /\ store = NoText
    /\ \E t, u \in Tasks :
        /\ cop[t].op = "delete_city" /\ cop[t].pc = "idle"
        /\ cop[t].kind = "ok" /\ ~cop[t].ret /\ cop[t].cmds = 2
        /\ cop[u].op = "delete_city" /\ cop[u].pc = "idle"
        /\ cop[u].kind = "ok" /\ ~cop[u].ret /\ cop[u].cmds = 1

-----------------------------------------------------------------------------
(* Claims about init and close                                             *)

\* Task t starts a call on the query client in this step.
Calls(t, via, op) ==
    /\ Idle(t)
    /\ call'[t] # call[t]
    /\ call'[t].via = via
    /\ call'[t].op = op

\* Task t starts a call on the cache in this step.
CacheCalls(t, via, op) ==
    /\ CIdle(t)
    /\ cop'[t] # cop[t]
    /\ cop'[t].via = via
    /\ cop'[t].op = op

\* C23: init on an initialized facade, OverpassApiClient or RedisCache, and
\* close on one that is not initialized, return without error and leave the
\* facade's fields and the implementation objects as they were.
C23_NoOps ==
    [][\A t \in Tasks :
        /\ Calls(t, "facade", "init") /\ oc_is_initialized /\ oc_impl # 0 =>
                /\ call'[t].kind = "already"
                /\ UNCHANGED <<oc_impl, oc_is_initialized, oc_n, api_client>>
        /\ Calls(t, "facade", "close") /\ (~oc_is_initialized \/ oc_impl = 0) =>
                /\ call'[t].kind = "noop"
                /\ UNCHANGED <<oc_impl, oc_is_initialized, oc_n, api_client>>
        /\ Calls(t, "direct", "init") /\ api_client[Standalone] # "None" =>
                /\ call'[t].kind = "already"
                /\ UNCHANGED api_client
        /\ Calls(t, "direct", "close") /\ api_client[Standalone] = "None" =>
                /\ call'[t].kind = "noop"
                /\ UNCHANGED api_client
        /\ CacheCalls(t, "facade", "init")
                /\ ca_is_initialized /\ ca_impl # 0 =>
                /\ cop'[t].kind = "already"
                /\ UNCHANGED <<ca_impl, ca_is_initialized, ca_n, rc_client>>
        /\ CacheCalls(t, "facade", "close")
                /\ (~ca_is_initialized \/ ca_impl = 0) =>
                /\ cop'[t].kind = "noop"
                /\ UNCHANGED <<ca_impl, ca_is_initialized, ca_n, rc_client>>
        /\ CacheCalls(t, "direct", "init") /\ br_client # "None" =>
                /\ cop'[t].kind = "already"
                /\ UNCHANGED br_client
        /\ CacheCalls(t, "direct", "close") /\ br_client = "None" =>
                /\ cop'[t].kind = "noop"
                /\ UNCHANGED br_client
      ]_vars

\* One task's close found the query facade not initialized, another task's
\* init found it initialized, and the facade still holds its client.
C23_Witness ==
    \E t, u \in Tasks :
        /\ call[t].via = "facade" /\ call[t].op = "init"
        /\ call[t].kind = "already"
        /\ call[u].via = "facade" /\ call[u].op = "close"
        /\ call[u].kind = "noop"
        /\ oc_is_initialized
        /\ oc_impl # 0
        /\ api_client[oc_impl] = "open"

\* C28: between calls (no init or close in progress) each facade's flag
\* _is_initialized is true exactly when its _impl is set, whatever init and
\* close calls were made and however the implementation's init and close
\* ended.
C28_FlagMatchesImpl ==
    /\ (\A t \in Tasks : Idle(t)) => (oc_is_initialized <=> oc_impl # 0)
    /\ (\A t \in Tasks : CIdle(t)) => (ca_is_initialized <=> ca_impl # 0)

\* C29: a call on a RedisCache whose last init failed at the ping and which
\* was not cleaned up since: get, set, delete and deleteCity raise "not
\* initialized" without sending a command, and init does not return as
\* already initialized.
C29_FailedInitNotUsed ==
    \A t \in Tasks :
        cop[t].via = "direct" /\ cop[t].pc = "idle" /\ cop[t].ping = "failed" =>
            /\ cop[t].op \in CacheOps =>
                    cop[t].kind = "NotInitialized" /\ cop[t].cmds = 0
            /\ cop[t].op = "init" => cop[t].kind # "already"

-----------------------------------------------------------------------------
(* Claims about the analytics service                                      *)

\* The row extract_daily_view is documented to give for a short event: the
\* banner, the client as viewer, the day of the event and its time stamp.
ViewOf(e) ==
    [banner_id |-> e.entity_id, viewer_id |-> e.client_id,
     view_date |-> date(e.event_ts), first_event_ts |-> e.event_ts]

\* C24: daily_item_views holds at most one row per (banner_id, viewer_id,
\* view_date); a row is created only from an item_card_open_short event of
\* the batch, with the client as viewer; and a row, once there, keeps its
\* first_event_ts whatever later events with the same key are processed.
C24_FirstViewKept ==
    [][/\ \A r \in daily_item_views : r \in daily_item_views'
       /\ \A r1, r2 \in daily_item_views' :
            PrimaryKey(r1) = PrimaryKey(r2) => r1 = r2
       /\ \A r \in daily_item_views' \ daily_item_views :
            \E i \in 1..Len(an_batch) :
                /\ an_batch[i].event_name = "item_card_open_short"
                /\ r = ViewOf(an_batch[i])]_vars

Whitelisted(e) == e.event_name \in ALLOWED_EVENTS

NotWhitelisted(e) == ~Whitelisted(e)

\* C25: the batch is split in two: the whitelisted events go to save_events
\* in one call, each once; the others are the rejected ones, each once.  A
\* returned rejected count is the number of events not whitelisted, a
\* returned accepted count is at most the number whitelisted, and a batch
\* without whitelisted events saves nothing and returns (0, batch size).
C25_PartitionAndCounts ==
    LET white == SelectSeq(an_batch, Whitelisted)
        other == SelectSeq(an_batch, NotWhitelisted)
    IN /\ an_valid = white
       /\ an_rejected = other
       /\ Len(an_saved) <= 1
       /\ \A c \in 1..Len(an_saved) :
            /\ white # <<>>
            /\ an_saved[c] = [i \in 1..Len(white) |-> enrich_event(white[i])]
       /\ an_result.kind = "return" =>
            /\ an_result.rejected = Len(other)
            /\ an_result.accepted <= Len(white)
            /\ white # <<>> => Len(an_saved) = 1
            /\ white = <<>> =>
                 /\ an_result.accepted = 0
                 /\ an_result.rejected = Len(an_batch)

\* A batch of a whitelisted and a rejected event has returned with the
\* whitelisted one counted as accepted.
C25_Witness ==
    /\ an_result = [kind |-> "return", accepted |-> 1, rejected |-> 1]
    /\ Len(an_batch) = 2
    /\ Len(an_saved) = 1

\* Every rejected event of the batch has been handed to save_rejected_event.
RejectedAttempted ==
    [i \in 1..Len(an_attempts) |-> an_attempts[i].event] = an_rejected

\* C30: a batch with a rejected event leads to an attempt to record each of
\* its rejected events, whether or not save_events and upsert_daily_views
\* succeed, and a failed attempt does not make the batch fail.
C30_RejectedEventuallyRecorded ==
    /\ \A n \in 1..MaxBatches :
         (an_n = n /\ an_rejected # <<>>) ~> (an_n = n /\ RejectedAttempted)
    /\ [](an_attempts # <<>> => an_result.kind # "raise")

-----------------------------------------------------------------------------
(* Claims about the metadata extractor                                     *)

\* The element passes the boundary / admin-level filter of the specification.
PassesFilter(e) ==
    /\ e.type = "relation"
    /\ e.tags["boundary"] = "administrative"
    /\ (e.tags["admin_level"] = "9" \/ e.tags["admin_level"] = "10")

\* Positions of the elements that gave a district.
Sources == {md_src[j] : j \in 1..Len(md_src)}

NameOrder == <<"name", "name:ru", "official_name", "alt_name">>

\* The first key of NameOrder that is in the set S of keys.
FirstOf(S) ==
    NameOrder[CHOOSE n \in 1..4 :
        /\ NameOrder[n] \in S
        /\ \A m \in 1..(n - 1) : NameOrder[m] \notin S]

PresentNames(e) == {k \in {"name", "name:ru", "official_name", "alt_name"} :
                        e.tags[k] # Missing}

NonEmptyNames(e) == {k \in PresentNames(e) : e.tags[k] # ""}

\* The district made from the element at position i, for i in Sources.
DistrictOf(i) == md_districts[CHOOSE j \in 1..Len(md_src) : md_src[j] = i]

\* C10, as stated: for every relation that passes the filter the name is the
\* value of the first tag present in the order name, name:ru, official_name,
\* alt_name; a relation with none of the four tags is dropped.
C10_FirstPresentName ==
    \A i \in 1..(md_i - 1) :
        PassesFilter(md_elements[i]) =>
            IF PresentNames(md_elements[i]) = {}
            THEN i \notin Sources
            ELSE /\ i \in Sources
                 /\ DistrictOf(i).name =
                        md_elements[i].tags[FirstOf(PresentNames(md_elements[i]))]

\* C10, amended: the name is the value of the first of the four tags that is
\* present with a non-empty value; a relation in which none of the four tags
\* has a non-empty value is dropped, and the loop goes on to the next element.
C10_FirstNonEmptyName ==
    /\ md_i \in 1..(Len(md_elements) + 1)
    /\ \A i \in 1..(md_i - 1) :
        PassesFilter(md_elements[i]) =>
            IF NonEmptyNames(md_elements[i]) = {}
            THEN i \notin Sources
            ELSE /\ i \in Sources
                 /\ DistrictOf(i).name =
                        md_elements[i].tags[FirstOf(NonEmptyNames(md_elements[i]))]

\* A relation without any name was dropped and the next relation, whose name
\* tag is empty, was named after its name:ru tag.
C10_Witness ==
    /\ MetaDone
    /\ Len(md_elements) = 2
    /\ PassesFilter(md_elements[1])
    /\ PresentNames(md_elements[1]) = {}
    /\ md_elements[2].tags["name"] = ""
    /\ Len(md_districts) = 1
    /\ md_districts[1].name = "Tsentralny"
    /\ md_src = <<2>>

\* The element is a kept relation: it passes the filter and has a name.
IsKept(e) == PassesFilter(e) /\ NonEmptyNames(e) # {}

\* The entries of the kept relations among the first n elements, in input
\* order, one entry per kept element.
RECURSIVE KeptEntries(_)
KeptEntries(n) ==
    IF n = 0
    THEN <<>>
    ELSE LET e == md_elements[n]
         IN IF IsKept(e)
            THEN Append(KeptEntries(n - 1),
                        [osm_relation_id |-> e.id, osm_type |-> "relation",
                         name |-> e.tags[FirstOf(NonEmptyNames(e))]])
            ELSE KeptEntries(n - 1)

\* C11: the output of parse_districts_metadata is the subsequence of the kept
\* input relations in input order, one entry per kept element; relations
\* with the same name and different ids both appear, nothing is merged,
\* reordered or duplicated.
C11_KeptInInputOrder == md_districts = KeptEntries(md_i - 1)

\* Two relations named "Central" with ids 1 and 2 gave two entries, in order.
C11_Witness ==
    /\ MetaDone
    /\ Len(md_districts) = 2
    /\ md_districts[1].name = md_districts[2].name
    /\ md_districts[1].osm_relation_id = 1
    /\ md_districts[2].osm_relation_id = 2

-----------------------------------------------------------------------------
(* Claims about the boundary reconstructor                                 *)

\* The element is a way fragment: a way with at least two nodes.
IsFragment(w) == w.type = "way" /\ w.has_geometry /\ Len(w.geometry) >= 2

\* The points of a fragment, as <<lon, lat>>.
LonLat(w) == [i \in 1..Len(w.geometry) |-> <<w.geometry[i].lon, w.geometry[i].lat>>]

\* The segments of a line, each as the set of its two end points.
SegmentsOf(l) == {{l[k], l[k + 1]} : k \in 1..(Len(l) - 1)}

\* The segments of all the fragments of a list of ways.
WaySegments(ws) == UNION {SegmentsOf(LonLat(ws[i])) : i \in 1..Len(ws)}

RECURSIVE SegmentCount(_)
SegmentCount(ws) ==
    IF ws = <<>> THEN 0 ELSE Len(Head(ws).geometry) - 1 + SegmentCount(Tail(ws))

\* The walk of n steps along the segments S that continues path and never
\* turns back.
RECURSIVE Walk(_, _, _)
Walk(S, path, n) ==
    IF n = 0
    THEN path
    ELSE LET cur == path[Len(path)]
             next == {q \in UNION S :
                        /\ {cur, q} \in S
                        /\ q # cur
                        /\ Len(path) > 1 => q # path[Len(path) - 1]}
         IN IF next = {}
            THEN path
            ELSE Walk(S, Append(path, CHOOSE q \in next : TRUE), n - 1)

\* The ring along the segments S, from one of its points.
RingOf(S) == Walk(S, <<CHOOSE p \in UNION S : TRUE>>, Cardinality(S))

\* The ways are fragments whose segments chain end to end into one simple
\* closed ring: no segment is there twice, every point is on two segments,
\* and the walk along the segments passes all of them, closes and is simple.
IsRingSoup(ws) ==
    /\ ws # <<>>
    /\ \A i \in 1..Len(ws) : IsFragment(ws[i])
    /\ LET S == WaySegments(ws) IN
        /\ \A sg \in S : Cardinality(sg) = 2
        /\ SegmentCount(ws) = Cardinality(S)
        /\ \A p \in UNION S : Cardinality({sg \in S : p \in sg}) = 2
        /\ Len(RingOf(S)) = Cardinality(S) + 1
        /\ SegmentsOf(RingOf(S)) = S
        /\ IsClosed(RingOf(S))
        /\ IsSimple(RingOf(S))

\* Twice the shoelace area of the closed line r.
RECURSIVE Shoelace(_)
Shoelace(r) ==
    IF Len(r) < 2
    THEN 0
    ELSE r[1][1] * r[2][2] - r[2][1] * r[1][2] + Shoelace(Tail(r))

Area2(r) == Abs(Shoelace(r))

UnitSquareSides ==
    {{<<0, 0>>, <<1, 0>>}, {<<1, 0>>, <<1, 1>>}, {<<1, 1>>, <<0, 1>>},
     {<<0, 1>>, <<0, 0>>}}

\* C12: for way fragments, in any order and direction, whose segments chain
\* end to end into one simple closed ring, parse_ways_to_geometry returns
\* exactly one polygon whose boundary is that ring and whose area is the
\* ring's shoelace area; the four sides of the unit square give area 1.
C12_RingGivesOnePolygon ==
    (pw_pc = "done" /\ IsRingSoup(pw_ways)) =>
        /\ pw_result.kind = "return"
        /\ pw_result.value.type = "Polygon"
        /\ Len(pw_result.value.rings) = 1
        /\ LET shell == pw_result.value.rings[1]
               S == WaySegments(pw_ways)
           IN /\ IsClosed(shell)
              /\ SegmentsOf(shell) = S
              /\ Len(shell) = Cardinality(S) + 1
              /\ Area2(shell) = Area2(RingOf(S))
              /\ S = UnitSquareSides => Area2(shell) = 2

\* The four sides of the unit square, out of order and one of them reversed,
\* gave the square.
C12_Witness ==
    /\ pw_pc = "done"
    /\ pw_ways = <<WayAt(<<<<1, 1>>, <<0, 1>>>>), WayAt(<<<<0, 0>>, <<1, 0>>>>),
                   WayAt(<<<<1, 1>>, <<1, 0>>>>), WayAt(<<<<0, 1>>, <<0, 0>>>>)>>
    /\ IsRingSoup(pw_ways)
    /\ pw_result.value.type = "Polygon"
    /\ Area2(pw_result.value.rings[1]) = 2

\* C13: when the lines merge into a single line that is not closed,
\* parse_ways_to_geometry returns None; so for the open way
\* (0,0)-(1,0)-(1,1).
C13_OpenLineGivesNone ==
    (/\ pw_pc = "done"
     /\ Len(pw_merged_lines) = 1
     /\ ~IsClosed(pw_merged_lines[1]))
    => pw_result = Returned(PyNone)

C13_Witness ==
    /\ pw_pc = "done"
    /\ pw_ways = <<WayAt(<<<<0, 0>>, <<1, 0>>, <<1, 1>>>>)>>
    /\ pw_merged_lines = <<<<<<0, 0>>, <<1, 0>>, <<1, 1>>>>>>
    /\ pw_result = Returned(PyNone)

LinesOf(ws, Test(_)) ==
    LET kept == SelectSeq(ws, Test)
    IN [i \in 1..Len(kept) |-> LonLat(kept[i])]

\* No line: None is returned, and neither merge nor assembly has run.
NoLineNoMerge ==
    pw_lines = <<>> => (pw_merged_lines = <<>> /\ pw_result = Returned(PyNone))

\* C20, as stated: an element contributes a line if and only if its type is
\* 'way' and its geometry has at least 2 nodes, the line being the nodes in
\* order as (lon, lat); without any line the function returns None and runs
\* neither merge nor assembly.
C20_LinePerWay ==
    pw_pc = "done" =>
        /\ pw_lines = LinesOf(pw_ways, IsFragment)
        /\ NoLineNoMerge

\* The nodes of the fragment are not all at one point.
HasExtent(w) == IsFragment(w) /\ \E i, j \in 1..Len(w.geometry) :
                                    w.geometry[i] # w.geometry[j]

\* C20, amended: an element contributes a line if and only if its type is
\* 'way', its geometry has at least 2 nodes and the nodes are not all at the
\* same point; the rest as stated.
C20_LinePerValidWay ==
    pw_pc = "done" =>
        /\ pw_lines = LinesOf(pw_ways, HasExtent)
        /\ NoLineNoMerge

\* Of an element that is not a way, a way without geometry, a way around one
\* point and a proper way, the last alone gave a line.
C20_Witness ==
    /\ pw_pc = "done"
    /\ Len(pw_ways) = 4
    /\ pw_ways[1].type = "node"
    /\ ~pw_ways[2].has_geometry
    /\ pw_ways[3] = WayAt(<<<<0, 0>>, <<0, 0>>>>)
    /\ pw_lines = <<<<<<1, 0>>, <<1, 1>>>>>>

\* The length of the path l in coordinate units, segment by segment.
RECURSIVE PathLength(_, _)
PathLength(l, k) ==
    IF k >= Len(l)
    THEN 0
    ELSE Abs(l[k + 1][1] - l[k][1]) + Abs(l[k + 1][2] - l[k][2])
            + PathLength(l, k + 1)

\* No other merged line is longer than pw_merged_lines[k].
IsLongest(k) ==
    \A m \in 1..Len(pw_merged_lines) :
        PathLength(pw_merged_lines[m], 1) <= PathLength(pw_merged_lines[k], 1)

\* The call got past step 1 and polygon assembly gave no polygon.
AssemblyFailed ==
    /\ pw_pc = "done"
    /\ pw_lines # <<>>
    /\ polygonize(pw_merged_lines) = <<>>

BoundingLines ==
    {k \in 1..Len(pw_merged_lines) :
        LET l == pw_merged_lines[k] IN
        /\ l[1] = l[Len(l)]
        /\ Len(l) >= 4
        /\ IsSimple(l)}

\* The value is a polygon or a multi-polygon with at least one part, every
\* part bounded by a simple closed ring and no two parts meeting.
IsValidArea(v) ==
    /\ v.type \in {"Polygon", "MultiPolygon"}
    /\ v.tag = ""
    /\ Len(v.rings) >= 1
    /\ v.type = "Polygon" => Len(v.rings) = 1
    /\ \A i \in 1..Len(v.rings) :
        /\ Len(v.rings[i]) >= 4
        /\ v.rings[i][1] = v.rings[i][Len(v.rings[i])]
        /\ IsSimple(v.rings[i])
        /\ Area2(v.rings[i]) > 0
    /\ \A i, j \in 1..Len(v.rings) :
        i < j => Apart(v.rings[i], v.rings[j])

-----------------------------------------------------------------------------
(* Claims about the geometry normalizer                                    *)

\* The shape is a polygon or a multi-polygon.
IsAreal(g) == g.type = "Polygon" \/ g.type = "MultiPolygon"

\* C15: whenever normalize_geometry returns something other than None it is
\* the text of a multi-polygon, never of a bare polygon: a valid polygon is
\* wrapped as a multi-polygon of that one polygon, a valid multi-polygon is
\* passed through, and a shape that is neither after the repair step gives
\* None.
C15_AlwaysMultiPolygon ==
    nz_pc = "done" =>
        /\ nz_out.kind = "return"
        /\ nz_out.value # PyNone =>
              (nz_out.value.type = "str" /\ nz_out.value.tag = "MULTIPOLYGON")
        /\ (is_valid(nz_geom) /\ IsAreal(nz_geom)) =>
              nz_out.value = Value("str", "MULTIPOLYGON", nz_geom.rings)
        /\ (is_valid(nz_geom) /\ ~IsAreal(nz_geom)) => nz_out.value = PyNone
        /\ ~is_valid(nz_geom) => nz_out.value # PyNone

\* The unit square, a bare polygon, came out as the text of a multi-polygon
\* of one part.
C15_Witness ==
    /\ nz_pc = "done"
    /\ nz_geom = Polygon(<<<<0, 0>>, <<1, 0>>, <<1, 1>>, <<0, 1>>, <<0, 0>>>>)
    /\ nz_out.value.tag = "MULTIPOLYGON"
    /\ Len(nz_out.value.rings) = 1

\* C16, as stated: for every valid input x, normalize(normalize(x)) is
\* defined and equals normalize(x).
C16_Idempotent ==
    (is_valid(nz_geom) /\ IsAreal(nz_geom) /\ nz_again # NotRun) =>
        nz_again = nz_out

\* C16, amended: for every polygon or multi-polygon x, normalize_geometry of
\* the multi-polygon whose text normalize_geometry(x) returned gives that
\* same text; normalize_geometry of the returned value itself, a str or
\* None, raises AttributeError.
C16_IdempotentOnShape ==
    /\ (IsAreal(nz_geom) /\ nz_same # NotRun) =>
            (nz_same = nz_out /\ nz_same.kind = "return")
    /\ nz_again # NotRun => nz_again = Raised("AttributeError")

C16_Witness ==
    /\ nz_geom = Polygon(<<<<0, 0>>, <<1, 0>>, <<1, 1>>, <<0, 1>>, <<0, 0>>>>)
    /\ nz_same = nz_out
    /\ nz_out.value.tag = "MULTIPOLYGON"
    /\ nz_again = Raised("AttributeError")

====
